---- MODULE Spec2Model ----
(***************************************************************************)
(* alot's ANSI escape handling: the tokenizer parse_ansi_escapes and       *)
(* strip_ansi_escapes of alot/utils/ansi.py, and the SGR interpreter       *)
(* parse_escapes_to_urwid of alot/widgets/ansi.py.                         *)
(*                                                                         *)
(* Python strings are TLA+ strings: TLC evaluates \o, Len and SubSeq on    *)
(* them.  Positions keep Python's 0-based numbering.  Every call owns its  *)
(* locals, so each variable is a function of the call.                     *)
(***************************************************************************)
EXTENDS Integers, Sequences, FiniteSets, TLC

VARIABLES fn, text, default_attr, default_attr_focus, parse_background,
          pc, i, j, code, args, gen_done, yielded, joined,
          param_iter, attr, urwid_text, urwid_focus

vars == <<fn, text, default_attr, default_attr_focus, parse_background,
          pc, i, j, code, args, gen_done, yielded, joined,
          param_iter, attr, urwid_text, urwid_focus>>

inputs == <<fn, text, default_attr, default_attr_focus, parse_background>>
gen_locals == <<i, j, code, args, gen_done>>
urwid_locals == <<param_iter, attr, urwid_text, urwid_focus>>

\* ------------------------------------------------------------ strings

\* The escape byte '\033'.
ESC == ""

\* Python's None in a string-valued slot (code) and in a tuple-valued slot
\* (args, a key of urwid_focus).
None == "None"
NoneT == <<>>

\* text[k]
CharAt(s, k) == SubSeq(s, k + 1, k + 1)

\* text[a:b] and text[a:], for a and b >= 0: a slice stops at the end of
\* the text.
Slice(s, a, b) ==
    LET hi == IF b < Len(s) THEN b ELSE Len(s)
    IN  IF a >= hi THEN "" ELSE SubSeq(s, a + 1, hi)
SliceFrom(s, a) == Slice(s, a, Len(s))

\* text.find(ch, start): the lowest position >= start holding ch, or -1.
find(s, ch, start) ==
    LET hits == {k \in start .. Len(s) - 1 : CharAt(s, k) = ch}
    IN  IF hits = {} THEN -1
        ELSE CHOOSE k \in hits : \A h \in hits : k <= h

\* ------------------------------------------------------------ the CSI grammar

\* _b2, _b3, _b4: the character classes of csi_pattern.  The backquote, a
\* final byte of _b4, cannot be written in a string of this module; no input
\* of the model contains it.
ParameterBytes ==
    {"0", "1", "2", "3", "4", "5", "6", "7", "8", "9",
     ":", ";", "<", "=", ">", "?"}
IntermediateBytes ==
    {" ", "!", "\"", "#", "$", "%", "&", "'", "(", ")", "*", "+",
     ",", "-", ".", "/"}
FinalBytes ==
    {"A", "B", "C", "D", "E", "F", "G", "H", "I", "J", "K", "L", "M",
     "N", "O", "P", "Q", "R", "S", "T", "U", "V", "W", "X", "Y", "Z",
     "[", "\\", "]", "^", "_",
     "a", "b", "c", "d", "e", "f", "g", "h", "i", "j", "k", "l", "m",
     "n", "o", "p", "q", "r", "s", "t", "u", "v", "w", "x", "y", "z",
     "{", "|", "}", "~"}

\* The end of the longest run of bytes of class cls that starts at pos: what
\* a greedy cls* consumes.  The three classes are disjoint, so the pattern
\* never backtracks.
SpanEnd(s, pos, cls) ==
    LET stops == {k \in pos .. Len(s) - 1 : CharAt(s, k) \notin cls}
    IN  IF stops = {} THEN Len(s)
        ELSE CHOOSE k \in stops : \A h \in stops : k <= h

\* parse_csi(text, pos): <<(pb, ib, fb), m.end()>>, or <<None, -1>>.
parse_csi(s, pos) ==
    LET p1 == SpanEnd(s, pos + 2, ParameterBytes)
        p2 == SpanEnd(s, p1, IntermediateBytes)
    IN  IF /\ Slice(s, pos, pos + 2) = ESC \o "["
           /\ p2 < Len(s)
           /\ CharAt(s, p2) \in FinalBytes
        THEN <<(<<Slice(s, pos + 2, p1), Slice(s, p1, p2), CharAt(s, p2)>>),
               p2 + 1>>
        ELSE <<NoneT, -1>>

\* ------------------------------------------------------------ the tokenizer

\* A mutant of SkipPast: the scan goes on at the byte after the ESC.
C33_SkipPastMutant(jj) == jj + 1

\* Where the scan resumes after an escape at jj that is no CSI sequence.
SkipPast(jj) == jj + 2

\* A mutant of TextAfter: the last segment loses its first byte.
C3_TextAfterMutant(t, from) == SliceFrom(t, from + 1)

\* A mutant of TextAfter: an ESC that ends the input is not in the last
\* segment.
C32_TextAfterMutant(t, from) ==
    IF Len(t) > from /\ SubSeq(t, Len(t), Len(t)) = ESC
    THEN SubSeq(t, from + 1, Len(t) - 1)
    ELSE SubSeq(t, from + 1, Len(t))

\* A mutant of TextBefore: the first byte after the sequence before is not
\* in the segment.
C36_TextBeforeMutant(t, from, jj) == Slice(t, from + 1, jj)

\* The text of the segment yielded in front of the CSI sequence at jj, and of
\* the last segment.
TextBefore(t, from, jj) == Slice(t, from, jj)
TextAfter(t, from) == SliceFrom(t, from)

\* One iteration of the loop of parse_ansi_escapes on the text t with the
\* locals g = [i, j, code, args]: the loop is left ("break", and the last
\* segment is yielded after it), goes on without a yield ("skip"), or yields
\* a segment ("yield").  at is where the escape was found, and next holds the
\* locals afterwards.
gen_step(t, g) ==
    LET jj == find(t, ESC, g.j)
    IN  IF jj = -1 \/ jj + 1 >= Len(t)
        THEN [kind |-> "break", at |-> jj,
              yielded |-> <<g.code, g.args, TextAfter(t, g.i)>>,
              next |-> [g EXCEPT !.j = jj]]
        ELSE
          LET new_code == CharAt(t, jj + 1)
              parsed == IF new_code = "[" THEN parse_csi(t, jj)
                        ELSE <<NoneT, -1>>
              new_args == parsed[1]
              k == parsed[2]
          IN  IF new_args = NoneT
              THEN [kind |-> "skip", at |-> jj, yielded |-> <<>>,
                    next |-> [g EXCEPT !.j = SkipPast(jj)]]
              ELSE [kind |-> "yield", at |-> jj,
                    yielded |-> <<g.code, g.args, TextBefore(t, g.i, jj)>>,
                    next |-> [i |-> k, j |-> k, code |-> new_code,
                              args |-> new_args]]

\* The segments the generator yields from the locals g on, in order.
RECURSIVE gen_run(_, _)
gen_run(t, g) ==
    LET st == gen_step(t, g)
    IN  IF st.kind = "break" THEN <<st.yielded>>
        ELSE IF st.kind = "skip" THEN gen_run(t, st.next)
        ELSE <<st.yielded>> \o gen_run(t, st.next)

\* How many times the body of the loop of parse_ansi_escapes runs on the text
\* t from the locals g on, the time it is left included.
RECURSIVE Iterations(_, _)
Iterations(t, g) ==
    LET st == gen_step(t, g)
    IN  IF st.kind = "break" THEN 1 ELSE 1 + Iterations(t, st.next)

\* list(parse_ansi_escapes(text))
parse_ansi_escapes(t) ==
    gen_run(t, [i |-> 0, j |-> 0, code |-> None, args |-> NoneT])

\* "".join(s for *_, s in segments)
RECURSIVE JoinTexts(_)
JoinTexts(segments) ==
    IF segments = <<>> THEN ""
    ELSE Head(segments)[3] \o JoinTexts(Tail(segments))

strip_ansi_escapes(t) == JoinTexts(parse_ansi_escapes(t))

\* ------------------------------------------------------------ the SGR tables

\* A mutant of DictUpdate: the update is lost.
C7_DictUpdateMutant(d, e) == d

\* dict.update(e): the keys of e are set, the others kept.
DictUpdate(d, e) ==
    [k \in DOMAIN d \cup DOMAIN e |-> IF k \in DOMAIN e THEN e[k] ELSE d[k]]

ECODES ==
    ("1" :> [bold |-> TRUE]) @@
    ("3" :> [italics |-> TRUE]) @@
    ("4" :> [underline |-> TRUE]) @@
    ("5" :> [blink |-> TRUE]) @@
    ("7" :> [standout |-> TRUE]) @@
    ("9" :> [strikethrough |-> TRUE]) @@
    ("30" :> [fg |-> "black"]) @@
    ("31" :> [fg |-> "dark red"]) @@
    ("32" :> [fg |-> "dark green"]) @@
    ("33" :> [fg |-> "brown"]) @@
    ("34" :> [fg |-> "dark blue"]) @@
    ("35" :> [fg |-> "dark magenta"]) @@
    ("36" :> [fg |-> "dark cyan"]) @@
    ("37" :> [fg |-> "light gray"]) @@
    ("40" :> [bg |-> "black"]) @@
    ("41" :> [bg |-> "dark red"]) @@
    ("42" :> [bg |-> "dark green"]) @@
    ("43" :> [bg |-> "brown"]) @@
    ("44" :> [bg |-> "dark blue"]) @@
    ("45" :> [bg |-> "dark magenta"]) @@
    ("46" :> [bg |-> "dark cyan"]) @@
    ("47" :> [bg |-> "light gray"])

URWID_MODS ==
    <<"bold", "underline", "standout", "blink", "italics", "strikethrough">>

\* ------------------------------------------------------------ conversions

\* pb.split(";"): the fields between the separators, empty fields kept.
RECURSIVE split(_, _)
split(s, sep) ==
    LET k == find(s, sep, 0)
    IN  IF k = -1 THEN <<s>>
        ELSE <<Slice(s, 0, k)>>
             \o (CHOOSE fields \in {split(rest, sep) :
                                      rest \in {SliceFrom(s, k + 1)}} : TRUE)

\* A mutant of Params: the fields are taken from the last to the first.
C27_ParamsMutant(pb) ==
    LET fields == split(pb, ";")
    IN  [n \in 1 .. Len(fields) |->
            IF fields[Len(fields) + 1 - n] = "" THEN "0"
            ELSE fields[Len(fields) + 1 - n]]

\* A mutant of Params: an empty field stays empty.
C28_ParamsMutant(pb) == split(pb, ";")

\* The generator expression of update_attr: "0" for every empty field.
Params(pb) ==
    LET fields == split(pb, ";")
    IN  [n \in 1 .. Len(fields) |-> IF fields[n] = "" THEN "0" ELSE fields[n]]

Digits == {"0", "1", "2", "3", "4", "5", "6", "7", "8", "9"}

DigitValue ==
    ("0" :> 0) @@ ("1" :> 1) @@ ("2" :> 2) @@ ("3" :> 3) @@ ("4" :> 4) @@
    ("5" :> 5) @@ ("6" :> 6) @@ ("7" :> 7) @@ ("8" :> 8) @@ ("9" :> 9)

\* int(s) raises ValueError unless s is a decimal numeral.  A parameter holds
\* parameter bytes only, so no sign, blank or underscore can occur in it.
IsInt(s) ==
    /\ Len(s) > 0
    /\ \A k \in 0 .. Len(s) - 1 : CharAt(s, k) \in Digits

RECURSIVE int(_)
int(s) ==
    IF Len(s) = 0 THEN 0
    ELSE 10 * int(Slice(s, 0, Len(s) - 1)) + DigitValue[CharAt(s, Len(s) - 1)]

HexDigit(n) == SubSeq("0123456789abcdef", n + 1, n + 1)

RECURSIVE Hex(_)
Hex(n) == IF n < 16 THEN HexDigit(n) ELSE Hex(n \div 16) \o HexDigit(n % 16)

\* format(n, "02x"): lowercase hexadecimal, zero-padded to two digits at least.
Format02x(n) == IF n < 16 THEN "0" \o Hex(n) ELSE Hex(n)

\* ------------------------------------------------------------ the interpreter

\* urwid.AttrSpec(fg, bg): the attribute of a run, by its two arguments.
AttrSpec(fg, bg) == <<fg, bg>>

\* A mutant of InitialAttr: standout starts from DefaultAttr's standout flag.
C4_InitialAttrMutant(da) ==
    [fg |-> da.foreground, bg |-> da.background, bold |-> da.bold,
     underline |-> da.underline, standout |-> da.standout]

\* A mutant of InitialFocus: the map starts empty.
C18_InitialFocusMutant(daf) == <<>>

\* The focus map a parse starts with.
InitialFocus(daf) == NoneT :> daf

\* The dict a parse starts with.
InitialAttr(da) ==
    [fg |-> da.foreground, bg |-> da.background, bold |-> da.bold,
     underline |-> da.underline, standout |-> da.underline]

\* A mutant of reset_attr: bold is switched off, not set to its default.
C6_ResetAttrMutant(da) ==
    [fg |-> da.foreground, bg |-> da.background, bold |-> FALSE,
     underline |-> da.underline, standout |-> da.underline]

\* A mutant of reset_attr: standout is reset to DefaultAttr's standout flag.
C25_ResetAttrMutant(da) ==
    [fg |-> da.foreground, bg |-> da.background, bold |-> da.bold,
     underline |-> da.underline, standout |-> da.standout]

\* reset_attr(): attr.clear() and attr.update(...).
reset_attr(da) ==
    [fg |-> da.foreground, bg |-> da.background, bold |-> da.bold,
     underline |-> da.underline, standout |-> da.underline]

\* A mutant of WithMods: the names are added in the reverse order.
RECURSIVE C20_WithModsMutant(_, _, _)
C20_WithModsMutant(fg, a, n) ==
    IF n > Len(URWID_MODS) THEN fg
    ELSE LET mod == URWID_MODS[n]
         IN  IF mod \in DOMAIN a /\ a[mod]
             THEN C20_WithModsMutant(fg, a, n + 1) \o "," \o mod
             ELSE C20_WithModsMutant(fg, a, n + 1)

\* The loop of append_themed_infix over URWID_MODS, from the n-th name on.
RECURSIVE WithMods(_, _, _)
WithMods(fg, a, n) ==
    IF n > Len(URWID_MODS) THEN fg
    ELSE LET mod == URWID_MODS[n]
         IN  IF mod \in DOMAIN a /\ a[mod]
             THEN WithMods(fg \o "," \o mod, a, n + 1)
             ELSE WithMods(fg, a, n + 1)

\* A mutant of ThemedAttr: the background is always the dict's.
C19_ThemedAttrMutant(a, da, pbg) == AttrSpec(WithMods(a.fg, a, 1), a.bg)

\* The urwid_attr that append_themed_infix builds.
ThemedAttr(a, da, pbg) ==
    AttrSpec(WithMods(a.fg, a, 1), IF pbg THEN a.bg ELSE da.background)

\* A mutant of IndexedColor: the index without its prefix.
C8_IndexedColorMutant(color_index) == color_index

\* The colour strings of the 8-bit and of the RGB colour type.
IndexedColor(color_index) == "h" \o color_index
RGBColor(r, g, b) == "#" \o Format02x(r) \o Format02x(g) \o Format02x(b)

\* A mutant of StopIteration: the colour channels are reset before the break.
C14_StopIterationMutant(a) ==
    [attr |-> [a EXCEPT !.fg = "default", !.bg = "default"], rest |-> <<>>,
     brk |-> TRUE]

\* next(param_iter) on an exhausted param_iter: the warning and the break.
StopIteration(a) == [attr |-> a, rest |-> <<>>, brk |-> TRUE]

\* A mutant of RGBValue: components that are no integers count as 0.
C15_RGBValueMutant(r, g, b) ==
    RGBColor(IF IsInt(r) THEN int(r) ELSE 0, IF IsInt(g) THEN int(g) ELSE 0,
             IF IsInt(b) THEN int(b) ELSE 0)

\* attr_value after the RGB branch: the colour string, or '' when int()
\* raised ValueError.
RGBValue(r, g, b) ==
    IF IsInt(r) /\ IsInt(g) /\ IsInt(b)
    THEN RGBColor(int(r), int(g), int(b))
    ELSE ""

\* The branch of update_attr for the parameters 38, 48 and 58.  rest is what
\* param_iter still holds after param.  The result is the dict, what
\* param_iter holds afterwards, and whether the loop was left by break.
ColorParam(a, param, rest) ==
    IF rest = <<>>
    THEN StopIteration(a)
    ELSE
      LET color_type == Head(rest)
          r1 == Tail(rest)
          attr_name == IF param = "38" THEN "fg"
                       ELSE IF param = "48" THEN "bg" ELSE ""
          Set(attr_value, r) ==
              [attr |-> IF attr_name # "" /\ attr_value # ""
                        THEN DictUpdate(a, attr_name :> attr_value)
                        ELSE a,
               rest |-> r, brk |-> FALSE]
      IN  IF color_type = "5"
          THEN IF r1 = <<>>
               THEN StopIteration(a)
               ELSE Set(IndexedColor(Head(r1)), Tail(r1))
          ELSE IF color_type = "2"
          THEN IF Len(r1) < 3
               THEN StopIteration(a)
               ELSE Set(RGBValue(r1[1], r1[2], r1[3]), SubSeq(r1, 4, Len(r1)))
          ELSE Set("", r1)

\* The loop of update_attr over what param_iter holds: the dict it leaves.
RECURSIVE update_params(_, _, _)
update_params(a, da, it) ==
    IF it = <<>> THEN a
    ELSE LET param == Head(it)
         IN  IF param \in {"", "0"}
             THEN update_params(reset_attr(da), da, Tail(it))
             ELSE IF param \in DOMAIN ECODES
             THEN update_params(DictUpdate(a, ECODES[param]), da, Tail(it))
             ELSE IF param \in {"38", "48", "58"}
             THEN LET res == ColorParam(a, param, Tail(it))
                  IN  IF res.brk THEN res.attr
                      ELSE update_params(res.attr, da, res.rest)
             ELSE update_params(a, da, Tail(it))

\* update_attr(pb, ib, fb) on the dict a.
update_attr(a, da, pb, fb) ==
    IF fb = "m" THEN update_params(a, da, Params(pb)) ELSE a

\* The for loop of parse_escapes_to_urwid over the segments, from the dict a
\* and the results so far.
RECURSIVE urwid_run(_, _, _, _, _, _)
urwid_run(segments, a, da, daf, pbg, out) ==
    IF segments = <<>> THEN out
    ELSE
      LET seg == Head(segments)
          a1 == IF seg[1] = "[" THEN update_attr(a, da, seg[2][1], seg[2][3])
                ELSE a
          urwid_attr == ThemedAttr(a1, da, pbg)
          out1 == IF seg[3] = "" THEN out
                  ELSE [urwid_text |->
                            Append(out.urwid_text, <<urwid_attr, seg[3]>>),
                        urwid_focus |->
                            DictUpdate(out.urwid_focus, urwid_attr :> daf)]
      IN  urwid_run(Tail(segments), a1, da, daf, pbg, out1)

\* parse_escapes_to_urwid(text, default_attr, default_attr_focus,
\* parse_background): urwid_text and urwid_focus.
parse_escapes_to_urwid(t, da, daf, pbg) ==
    urwid_run(parse_ansi_escapes(t), InitialAttr(da), da, daf, pbg,
              [urwid_text |-> <<>>, urwid_focus |-> InitialFocus(daf)])

\* ------------------------------------------------------------ the calls

Calls == {1, 2}

Set1(f, c, v) == [f EXCEPT ![c] = v]

\* The generator's locals, as one value.
Locals(c) == [i |-> i[c], j |-> j[c], code |-> code[c], args |-> args[c]]

\* parse_ansi_escapes: the loop is left, and the last segment is yielded.
GenBreak(c) ==
    /\ pc[c] = "gen"
    /\ LET st == gen_step(text[c], Locals(c))
       IN  /\ st.kind = "break"
           /\ j' = Set1(j, c, st.next.j)
           /\ yielded' = Set1(yielded, c, st.yielded)
    /\ gen_done' = Set1(gen_done, c, TRUE)
    /\ pc' = Set1(pc, c, "consume")
    /\ UNCHANGED <<inputs, i, code, args, joined, urwid_locals>>

\* A mutant of GenSkip: the scan goes on at the byte after the ESC.
C37_GenSkipMutant(c) ==
    /\ pc[c] = "gen"
    /\ LET st == gen_step(text[c], Locals(c))
       IN  /\ st.kind = "skip"
           /\ j' = Set1(j, c, st.at + 1)
    /\ UNCHANGED <<inputs, pc, i, code, args, gen_done, yielded, joined,
                   urwid_locals>>

\* parse_ansi_escapes: an iteration over an escape that is no CSI sequence.
GenSkip(c) ==
    /\ pc[c] = "gen"
    /\ LET st == gen_step(text[c], Locals(c))
       IN  /\ st.kind = "skip"
           /\ j' = Set1(j, c, st.next.j)
    /\ UNCHANGED <<inputs, pc, i, code, args, gen_done, yielded, joined,
                   urwid_locals>>

\* A mutant of GenYield: the segment carries the code and the parameters of
\* the CSI sequence that follows its text.
C31_GenYieldMutant(c) ==
    /\ pc[c] = "gen"
    /\ LET st == gen_step(text[c], Locals(c))
       IN  /\ st.kind = "yield"
           /\ yielded' = Set1(yielded, c,
                              <<st.next.code, st.next.args, st.yielded[3]>>)
           /\ code' = Set1(code, c, st.next.code)
           /\ args' = Set1(args, c, st.next.args)
           /\ i' = Set1(i, c, st.next.i)
           /\ j' = Set1(j, c, st.next.j)
    /\ pc' = Set1(pc, c, "consume")
    /\ UNCHANGED <<inputs, gen_done, joined, urwid_locals>>

\* A mutant of GenYield: a segment with an empty text is not yielded.
C30_GenYieldMutant(c) ==
    /\ pc[c] = "gen"
    /\ LET st == gen_step(text[c], Locals(c))
       IN  /\ st.kind = "yield"
           /\ code' = Set1(code, c, st.next.code)
           /\ args' = Set1(args, c, st.next.args)
           /\ i' = Set1(i, c, st.next.i)
           /\ j' = Set1(j, c, st.next.j)
           /\ IF st.yielded[3] = ""
              THEN UNCHANGED <<yielded, pc>>
              ELSE /\ yielded' = Set1(yielded, c, st.yielded)
                   /\ pc' = Set1(pc, c, "consume")
    /\ UNCHANGED <<inputs, gen_done, joined, urwid_locals>>

\* parse_ansi_escapes: an iteration over a CSI sequence.  The segment before
\* it is yielded; the assignments that follow the yield touch the generator's
\* locals only and are taken with it.
GenYield(c) ==
    /\ pc[c] = "gen"
    /\ LET st == gen_step(text[c], Locals(c))
       IN  /\ st.kind = "yield"
           /\ yielded' = Set1(yielded, c, st.yielded)
           /\ code' = Set1(code, c, st.next.code)
           /\ args' = Set1(args, c, st.next.args)
           /\ i' = Set1(i, c, st.next.i)
           /\ j' = Set1(j, c, st.next.j)
    /\ pc' = Set1(pc, c, "consume")
    /\ UNCHANGED <<inputs, gen_done, joined, urwid_locals>>

AfterSegment(c) == IF gen_done[c] THEN "done" ELSE "gen"

\* strip_ansi_escapes: "".join takes the text of the segment.
Join(c) ==
    /\ pc[c] = "consume"
    /\ fn[c] = "strip_ansi_escapes"
    /\ joined' = Set1(joined, c, joined[c] \o yielded[c][3])
    /\ pc' = Set1(pc, c, AfterSegment(c))
    /\ UNCHANGED <<inputs, gen_locals, yielded, urwid_locals>>

\* A mutant of Segment: every SGR sequence starts from the reset dict.
C26_SegmentMutant(c) ==
    /\ pc[c] = "consume"
    /\ fn[c] = "parse_escapes_to_urwid"
    /\ IF yielded[c][1] = "[" /\ yielded[c][2][3] = "m"
       THEN /\ param_iter' = Set1(param_iter, c, Params(yielded[c][2][1]))
            /\ attr' = Set1(attr, c, reset_attr(default_attr[c]))
            /\ pc' = Set1(pc, c, "update_attr")
       ELSE /\ pc' = Set1(pc, c, "append")
            /\ UNCHANGED <<param_iter, attr>>
    /\ UNCHANGED <<inputs, gen_locals, yielded, joined, urwid_text,
                   urwid_focus>>

\* A mutant of Segment: update_attr takes the parameters of every CSI
\* sequence, whatever its final byte.
C21_SegmentMutant(c) ==
    /\ pc[c] = "consume"
    /\ fn[c] = "parse_escapes_to_urwid"
    /\ IF yielded[c][1] = "["
       THEN /\ param_iter' = Set1(param_iter, c, Params(yielded[c][2][1]))
            /\ pc' = Set1(pc, c, "update_attr")
       ELSE /\ pc' = Set1(pc, c, "append")
            /\ UNCHANGED param_iter
    /\ UNCHANGED <<inputs, gen_locals, yielded, joined, attr, urwid_text,
                   urwid_focus>>

\* parse_escapes_to_urwid: the body of the for loop up to the call of
\* update_attr, and update_attr up to its loop.
Segment(c) ==
    /\ pc[c] = "consume"
    /\ fn[c] = "parse_escapes_to_urwid"
    /\ IF yielded[c][1] = "["
       THEN IF yielded[c][2][3] = "m"
            THEN /\ param_iter' = Set1(param_iter, c, Params(yielded[c][2][1]))
                 /\ pc' = Set1(pc, c, "update_attr")
            ELSE /\ pc' = Set1(pc, c, "append")
                 /\ UNCHANGED param_iter
       ELSE /\ pc' = Set1(pc, c, "append")
            /\ UNCHANGED param_iter
    /\ UNCHANGED <<inputs, gen_locals, yielded, joined, attr, urwid_text,
                   urwid_focus>>

\* update_attr: param_iter is exhausted.
ParamsDone(c) ==
    /\ pc[c] = "update_attr"
    /\ param_iter[c] = <<>>
    /\ pc' = Set1(pc, c, "append")
    /\ UNCHANGED <<inputs, gen_locals, yielded, joined, urwid_locals>>

\* A mutant of ParamReset: the dict is updated without being cleared.
C24_ParamResetMutant(c) ==
    /\ pc[c] = "update_attr"
    /\ param_iter[c] # <<>>
    /\ Head(param_iter[c]) \in {"", "0"}
    /\ attr' = Set1(attr, c, DictUpdate(attr[c], reset_attr(default_attr[c])))
    /\ param_iter' = Set1(param_iter, c, Tail(param_iter[c]))
    /\ UNCHANGED <<inputs, pc, gen_locals, yielded, joined, urwid_text,
                   urwid_focus>>

\* update_attr: the parameter 0.
ParamReset(c) ==
    /\ pc[c] = "update_attr"
    /\ param_iter[c] # <<>>
    /\ Head(param_iter[c]) \in {"", "0"}
    /\ attr' = Set1(attr, c, reset_attr(default_attr[c]))
    /\ param_iter' = Set1(param_iter, c, Tail(param_iter[c]))
    /\ UNCHANGED <<inputs, pc, gen_locals, yielded, joined, urwid_text,
                   urwid_focus>>

\* A mutant of ParamEcode: the entries the parameter does not name go back to
\* DefaultAttr's.
C38_ParamEcodeMutant(c) ==
    /\ pc[c] = "update_attr"
    /\ param_iter[c] # <<>>
    /\ Head(param_iter[c]) \notin {"", "0"}
    /\ Head(param_iter[c]) \in DOMAIN ECODES
    /\ attr' = Set1(attr, c, DictUpdate(reset_attr(default_attr[c]),
                                        ECODES[Head(param_iter[c])]))
    /\ param_iter' = Set1(param_iter, c, Tail(param_iter[c]))
    /\ UNCHANGED <<inputs, pc, gen_locals, yielded, joined, urwid_text,
                   urwid_focus>>

\* A mutant of ParamEcode: the dict is one object that every call in
\* parse_escapes_to_urwid uses.
C22_ParamEcodeMutant(c) ==
    /\ pc[c] = "update_attr"
    /\ param_iter[c] # <<>>
    /\ Head(param_iter[c]) \notin {"", "0"}
    /\ Head(param_iter[c]) \in DOMAIN ECODES
    /\ attr' = [d \in Calls |->
                   IF d = c \/ attr[d] # <<>>
                   THEN DictUpdate(attr[c], ECODES[Head(param_iter[c])])
                   ELSE attr[d]]
    /\ param_iter' = Set1(param_iter, c, Tail(param_iter[c]))
    /\ UNCHANGED <<inputs, pc, gen_locals, yielded, joined, urwid_text,
                   urwid_focus>>

\* update_attr: a parameter of ECODES.
ParamEcode(c) ==
    /\ pc[c] = "update_attr"
    /\ param_iter[c] # <<>>
    /\ Head(param_iter[c]) \notin {"", "0"}
    /\ Head(param_iter[c]) \in DOMAIN ECODES
    /\ attr' = Set1(attr, c, DictUpdate(attr[c], ECODES[Head(param_iter[c])]))
    /\ param_iter' = Set1(param_iter, c, Tail(param_iter[c]))
    /\ UNCHANGED <<inputs, pc, gen_locals, yielded, joined, urwid_text,
                   urwid_focus>>

\* A mutant of ParamColor: the underline colour 58 is taken as 38.
C29_ParamColorMutant(c) ==
    /\ pc[c] = "update_attr"
    /\ param_iter[c] # <<>>
    /\ Head(param_iter[c]) \in {"38", "48", "58"}
    /\ LET res == ColorParam(attr[c],
                             IF Head(param_iter[c]) = "58" THEN "38"
                             ELSE Head(param_iter[c]),
                             Tail(param_iter[c]))
       IN  /\ attr' = Set1(attr, c, res.attr)
           /\ param_iter' = Set1(param_iter, c, res.rest)
           /\ pc' = Set1(pc, c, IF res.brk THEN "append" ELSE "update_attr")
    /\ UNCHANGED <<inputs, gen_locals, yielded, joined, urwid_text,
                   urwid_focus>>

\* update_attr: the parameters 38, 48 and 58.
ParamColor(c) ==
    /\ pc[c] = "update_attr"
    /\ param_iter[c] # <<>>
    /\ Head(param_iter[c]) \in {"38", "48", "58"}
    /\ LET res == ColorParam(attr[c], Head(param_iter[c]), Tail(param_iter[c]))
       IN  /\ attr' = Set1(attr, c, res.attr)
           /\ param_iter' = Set1(param_iter, c, res.rest)
           /\ pc' = Set1(pc, c, IF res.brk THEN "append" ELSE "update_attr")
    /\ UNCHANGED <<inputs, gen_locals, yielded, joined, urwid_text,
                   urwid_focus>>

\* A mutant of ParamIgnored: a parameter that is not known resets the dict.
C12_ParamIgnoredMutant(c) ==
    /\ pc[c] = "update_attr"
    /\ param_iter[c] # <<>>
    /\ Head(param_iter[c]) \notin {"", "0"}
    /\ Head(param_iter[c]) \notin DOMAIN ECODES
    /\ Head(param_iter[c]) \notin {"38", "48", "58"}
    /\ attr' = Set1(attr, c, reset_attr(default_attr[c]))
    /\ param_iter' = Set1(param_iter, c, Tail(param_iter[c]))
    /\ UNCHANGED <<inputs, pc, gen_locals, yielded, joined, urwid_text,
                   urwid_focus>>

\* update_attr: any other parameter is logged and ignored.
ParamIgnored(c) ==
    /\ pc[c] = "update_attr"
    /\ param_iter[c] # <<>>
    /\ Head(param_iter[c]) \notin {"", "0"}
    /\ Head(param_iter[c]) \notin DOMAIN ECODES
    /\ Head(param_iter[c]) \notin {"38", "48", "58"}
    /\ param_iter' = Set1(param_iter, c, Tail(param_iter[c]))
    /\ UNCHANGED <<inputs, pc, gen_locals, yielded, joined, attr, urwid_text,
                   urwid_focus>>

\* A mutant of append_themed_infix: an empty infix is appended as well.
C17_AppendMutant(c) ==
    /\ pc[c] = "append"
    /\ LET infix == yielded[c][3]
           urwid_attr == ThemedAttr(attr[c], default_attr[c],
                                    parse_background[c])
       IN  /\ urwid_focus' =
                  Set1(urwid_focus, c,
                       DictUpdate(urwid_focus[c],
                                  urwid_attr :> default_attr_focus[c]))
           /\ urwid_text' =
                  Set1(urwid_text, c,
                       Append(urwid_text[c], <<urwid_attr, infix>>))
    /\ pc' = Set1(pc, c, AfterSegment(c))
    /\ UNCHANGED <<inputs, gen_locals, yielded, joined, param_iter, attr>>

\* A mutant of append_themed_infix: the text in front of the first CSI
\* sequence is not appended.
C35_AppendMutant(c) ==
    /\ pc[c] = "append"
    /\ LET infix == yielded[c][3]
           urwid_attr == ThemedAttr(attr[c], default_attr[c],
                                    parse_background[c])
       IN  IF infix = "" \/ yielded[c][1] = None
           THEN UNCHANGED <<urwid_text, urwid_focus>>
           ELSE /\ urwid_focus' =
                       Set1(urwid_focus, c,
                            DictUpdate(urwid_focus[c],
                                       urwid_attr :> default_attr_focus[c]))
                /\ urwid_text' =
                       Set1(urwid_text, c,
                            Append(urwid_text[c], <<urwid_attr, infix>>))
    /\ pc' = Set1(pc, c, AfterSegment(c))
    /\ UNCHANGED <<inputs, gen_locals, yielded, joined, param_iter, attr>>

\* append_themed_infix(infix), and the end of the for loop's body.
append_themed_infix(c) ==
    /\ pc[c] = "append"
    /\ LET infix == yielded[c][3]
           urwid_attr == ThemedAttr(attr[c], default_attr[c],
                                    parse_background[c])
       IN  IF infix = ""
           THEN UNCHANGED <<urwid_text, urwid_focus>>
           ELSE /\ urwid_focus' =
                       Set1(urwid_focus, c,
                            DictUpdate(urwid_focus[c],
                                       urwid_attr :> default_attr_focus[c]))
                /\ urwid_text' =
                       Set1(urwid_text, c,
                            Append(urwid_text[c], <<urwid_attr, infix>>))
    /\ pc' = Set1(pc, c, AfterSegment(c))
    /\ UNCHANGED <<inputs, gen_locals, yielded, joined, param_iter, attr>>

Next ==
    \E c \in Calls :
        \/ GenBreak(c)
        \/ GenSkip(c)
        \/ GenYield(c)
        \/ Join(c)
        \/ Segment(c)
        \/ ParamsDone(c)
        \/ ParamReset(c)
        \/ ParamEcode(c)
        \/ ParamColor(c)
        \/ ParamIgnored(c)
        \/ append_themed_infix(c)

\* ------------------------------------------------------------ the inputs

MaxLen == 6
MaxGroups == 2

RECURSIVE Strings(_, _)
Strings(alphabet, n) ==
    IF n = 0 THEN {""}
    ELSE LET shorter == Strings(alphabet, n - 1)
         IN  shorter \cup {s \o a : s \in shorter, a \in alphabet}

\* Every text of at most MaxLen bytes over ESC, the CSI introducer, the final
\* byte of SGR and one more final byte.
TokTexts == Strings({ESC, "[", "m", "x"}, MaxLen)

\* Parameter strings are made of these fields and runs of fields.
Groups ==
    {"", "0", "1", "2", "3", "4", "5", "7", "9",
     "30", "31", "32", "33", "34", "35", "36", "37",
     "40", "41", "42", "43", "44", "45", "46", "47",
     "38", "48", "58", "99", "?",
     "38;5;200", "48;5;17", "58;5;1", "38;5;300", "48;5;?", "38;5",
     "38;2;10;20;30", "48;2;255;0;128", "58;2;1;2;3", "38;2;256;0;0",
     "38;2;1;?;3", "38;2;1;2", "38;9"}

RECURSIVE ParamStrings(_)
ParamStrings(n) ==
    IF n = 1 THEN Groups
    ELSE LET shorter == ParamStrings(n - 1)
         IN  shorter \cup {p \o ";" \o g : p \in shorter, g \in Groups}

SGR(p) == ESC \o "[" \o p \o "m"

\* One SGR sequence in front of a text.
SgrTexts == {SGR(p) \o "x" : p \in ParamStrings(MaxGroups)}

PlainAttr ==
    [foreground |-> "default", background |-> "default", bold |-> FALSE,
     underline |-> FALSE, standout |-> FALSE]

DefaultAttrs ==
    [foreground : {"default"}, background : {"default"}, bold : BOOLEAN,
     underline : BOOLEAN, standout : BOOLEAN]
    \cup
    [foreground : {"light gray"}, background : {"dark blue"}, bold : {FALSE},
     underline : {FALSE}, standout : {FALSE}]

\* Texts with up to two SGR sequences, for every default attribute.
ThemeParams == {"", "0", "1", "4", "7", "31", "42", "99"}
ThemeWords == {"", "ab"}
LastWords == {"", "x"}
ThemeTexts ==
    {w0 \o SGR(p1) \o w1 : w0 \in ThemeWords, p1 \in ThemeParams,
                           w1 \in ThemeWords}
    \cup
    {SGR(p1) \o w1 \o SGR(p2) \o w2 : p1 \in ThemeParams, w1 \in ThemeWords,
                                     p2 \in ThemeParams, w2 \in LastWords}
    \cup {"", "ab"}

\* Texts with two SGR sequences, the first with parameters that are unknown,
\* incomplete or malformed, under both default focus attributes.
RecoveryParams ==
    {"99", "1;99;4", "?;31", "1;38", "31;38", "4;48;5", "42;48;5", "1;58",
     "1;38;2;1;2", "31;38;2;1", "41;48;2", "38;2;1;?;3;7", "31;38;2;<;2;3;1",
     "48;2;1;2;>;44", "38;9;1", "48;7;31", "58;0;4", "38;2;256;0;0",
     "48;2;0;999;7;1", "38;5;300;4", "9;1", "1;9", "5;3;7", "7;3;5", "4;1;9"}
NextParams == {"", "1", "31", "48;5;17", "38;2;10;20;30"}
RecoveryTexts ==
    {SGR(p1) \o w1 \o SGR(p2) \o "x" : p1 \in RecoveryParams,
                                       w1 \in ThemeWords, p2 \in NextParams}
FocusAttrs == {"focus", None}

\* Texts with one SGR sequence whose parameters repeat a channel, hold empty
\* fields or hold the underline colour 58.
EdgeParams ==
    {"31;32", "32;31", "1;0", "0;1", "41;42", "5;0", "3;9;0;4",
     ";1", "1;", "1;;4", ";", "38;5;", "48;5;;1", "38;2;;;", "48;2;1;;3;4",
     "58;5;1;4", "58;2;1;2;3;4", "58;5;7", "58;2;7;7;7", "58;5;1"}
EdgeTexts == {SGR(p) \o "x" : p \in EdgeParams}

\* Texts with a CSI sequence that is no SGR sequence.
CSI(p, f) == ESC \o "[" \o p \o f
CsiParams == {"", "0", "1", "31", "7;42", "38;5;200", "?25"}
CsiFinals == {"x", "H", " q"}
CsiTexts ==
    {w0 \o CSI(p, f) \o w1 : w0 \in ThemeWords, p \in CsiParams,
                             f \in CsiFinals, w1 \in ThemeWords}
    \cup
    {SGR(p1) \o "ab" \o CSI(p, f) \o "x" : p1 \in {"1", "42"},
                                          p \in CsiParams, f \in CsiFinals}

Inputs ==
    [fn : {"strip_ansi_escapes"}, text : CsiTexts,
     default_attr : {PlainAttr}, default_attr_focus : {"focus"},
     parse_background : {TRUE}]
    \cup
    [fn : {"parse_escapes_to_urwid"}, text : CsiTexts \cup EdgeTexts,
     default_attr : DefaultAttrs, default_attr_focus : {"focus"},
     parse_background : BOOLEAN]
    \cup
    [fn : {"strip_ansi_escapes", "parse_escapes_to_urwid"}, text : TokTexts,
     default_attr : {PlainAttr}, default_attr_focus : {"focus"},
     parse_background : {TRUE}]
    \cup
    [fn : {"parse_escapes_to_urwid"}, text : SgrTexts,
     default_attr : {PlainAttr}, default_attr_focus : {"focus"},
     parse_background : {TRUE}]
    \cup
    [fn : {"parse_escapes_to_urwid"}, text : ThemeTexts,
     default_attr : DefaultAttrs, default_attr_focus : {"focus"},
     parse_background : BOOLEAN]
    \cup
    [fn : {"parse_escapes_to_urwid"}, text : RecoveryTexts,
     default_attr : {PlainAttr, [PlainAttr EXCEPT !.foreground = "light gray",
                                                  !.background = "dark blue"]},
     default_attr_focus : FocusAttrs, parse_background : BOOLEAN]

\* ------------------------------------------------------------ the specification

\* The locals of a call right after fn is entered with the arguments in.
Entered(in) ==
    [fn |-> in.fn, text |-> in.text, default_attr |-> in.default_attr,
     default_attr_focus |-> in.default_attr_focus,
     parse_background |-> in.parse_background,
     pc |-> "gen", i |-> 0, j |-> 0, code |-> None, args |-> NoneT,
     gen_done |-> FALSE, yielded |-> <<>>, joined |-> "",
     param_iter |-> <<>>,
     attr |-> IF in.fn = "parse_escapes_to_urwid"
              THEN InitialAttr(in.default_attr) ELSE <<>>,
     urwid_text |-> <<>>,
     urwid_focus |-> IF in.fn = "parse_escapes_to_urwid"
                     THEN InitialFocus(in.default_attr_focus) ELSE <<>>]

\* A call that is not made.
Idle ==
    [fn |-> "idle", text |-> "", default_attr |-> PlainAttr,
     default_attr_focus |-> "focus", parse_background |-> TRUE,
     pc |-> "idle", i |-> 0, j |-> 0, code |-> None, args |-> NoneT,
     gen_done |-> FALSE, yielded |-> <<>>, joined |-> "",
     param_iter |-> <<>>, attr |-> <<>>, urwid_text |-> <<>>,
     urwid_focus |-> <<>>]

\* The state in which every call c has the locals L[c].
Started(L) ==
    /\ fn = [c \in Calls |-> L[c].fn]
    /\ text = [c \in Calls |-> L[c].text]
    /\ default_attr = [c \in Calls |-> L[c].default_attr]
    /\ default_attr_focus = [c \in Calls |-> L[c].default_attr_focus]
    /\ parse_background = [c \in Calls |-> L[c].parse_background]
    /\ pc = [c \in Calls |-> L[c].pc]
    /\ i = [c \in Calls |-> L[c].i]
    /\ j = [c \in Calls |-> L[c].j]
    /\ code = [c \in Calls |-> L[c].code]
    /\ args = [c \in Calls |-> L[c].args]
    /\ gen_done = [c \in Calls |-> L[c].gen_done]
    /\ yielded = [c \in Calls |-> L[c].yielded]
    /\ joined = [c \in Calls |-> L[c].joined]
    /\ param_iter = [c \in Calls |-> L[c].param_iter]
    /\ attr = [c \in Calls |-> L[c].attr]
    /\ urwid_text = [c \in Calls |-> L[c].urwid_text]
    /\ urwid_focus = [c \in Calls |-> L[c].urwid_focus]

\* One call, of either function, on any of the inputs.
Init ==
    \E in \in Inputs :
        Started([c \in Calls |-> IF c = 1 THEN Entered(in) ELSE Idle])

Spec == Init /\ [][Next]_vars

\* ------------------------------------------------------------ several calls

\* The arguments call c was made with.
Arguments(c) ==
    [fn |-> fn[c], text |-> text[c], default_attr |-> default_attr[c],
     default_attr_focus |-> default_attr_focus[c],
     parse_background |-> parse_background[c]]

\* A call with the arguments in that has not been entered yet.
Pending(in) ==
    [Idle EXCEPT !.fn = in.fn, !.text = in.text,
                 !.default_attr = in.default_attr,
                 !.default_attr_focus = in.default_attr_focus,
                 !.parse_background = in.parse_background]

\* A mutant of Enter: the dict is kept from a call that has returned.
C23_EnterMutant(c) ==
    /\ pc[c] = "idle"
    /\ fn[c] # "idle"
    /\ LET L == Entered(Arguments(c))
           before == {d \in Calls : pc[d] = "done" /\ attr[d] # <<>>}
       IN  /\ pc' = Set1(pc, c, L.pc)
           /\ i' = Set1(i, c, L.i)
           /\ j' = Set1(j, c, L.j)
           /\ code' = Set1(code, c, L.code)
           /\ args' = Set1(args, c, L.args)
           /\ gen_done' = Set1(gen_done, c, L.gen_done)
           /\ yielded' = Set1(yielded, c, L.yielded)
           /\ joined' = Set1(joined, c, L.joined)
           /\ param_iter' = Set1(param_iter, c, L.param_iter)
           /\ attr' = Set1(attr, c,
                           IF before # {} /\ L.attr # <<>>
                           THEN attr[CHOOSE d \in before : TRUE]
                           ELSE L.attr)
           /\ urwid_text' = Set1(urwid_text, c, L.urwid_text)
           /\ urwid_focus' = Set1(urwid_focus, c, L.urwid_focus)
    /\ UNCHANGED inputs

\* The function is entered: its locals, and those of the generator it
\* creates, get their first values.
Enter(c) ==
    /\ pc[c] = "idle"
    /\ fn[c] # "idle"
    /\ LET L == Entered(Arguments(c))
       IN  /\ pc' = Set1(pc, c, L.pc)
           /\ i' = Set1(i, c, L.i)
           /\ j' = Set1(j, c, L.j)
           /\ code' = Set1(code, c, L.code)
           /\ args' = Set1(args, c, L.args)
           /\ gen_done' = Set1(gen_done, c, L.gen_done)
           /\ yielded' = Set1(yielded, c, L.yielded)
           /\ joined' = Set1(joined, c, L.joined)
           /\ param_iter' = Set1(param_iter, c, L.param_iter)
           /\ attr' = Set1(attr, c, L.attr)
           /\ urwid_text' = Set1(urwid_text, c, L.urwid_text)
           /\ urwid_focus' = Set1(urwid_focus, c, L.urwid_focus)
    /\ UNCHANGED inputs

\* The texts and the arguments of the calls that run together.
CallTexts ==
    {"ab", SGR("1") \o "ab", SGR("31") \o "ab" \o SGR("0") \o "x",
     SGR("4;48;5;17;99") \o "x", ESC \o "x" \o SGR("7") \o "ab",
     SGR("42") \o SGR("3") \o "x"}
CallAttrs == {PlainAttr, [PlainAttr EXCEPT !.bold = TRUE, !.standout = TRUE]}
CallInputs ==
    [fn : {"strip_ansi_escapes", "parse_escapes_to_urwid"}, text : CallTexts,
     default_attr : CallAttrs, default_attr_focus : {"focus"},
     parse_background : {TRUE}]

\* Two calls with the same DefaultAttr, neither entered yet: any of them may
\* be entered while the other runs, or after it has returned.
InitCalls ==
    \E in1 \in CallInputs : \E in2 \in CallInputs :
        /\ in1.default_attr = in2.default_attr
        /\ Started([c \in Calls |-> IF c = 1 THEN Pending(in1)
                                     ELSE Pending(in2)])

NextCalls ==
    \/ Next
    \/ \E c \in Calls : Enter(c)

SpecCalls == InitCalls /\ [][NextCalls]_vars

\* ------------------------------------------------------------ termination

\* The texts and the arguments of the call that is followed to its end.
MaxFairLen == 4
FairTexts ==
    Strings({ESC, "[", "m", "x"}, MaxFairLen)
    \cup {SGR(p) \o "x" : p \in EdgeParams \cup ThemeParams}
FairInputs ==
    [fn : {"strip_ansi_escapes", "parse_escapes_to_urwid"}, text : FairTexts,
     default_attr : {PlainAttr}, default_attr_focus : {"focus"},
     parse_background : {TRUE}]

\* The function is called: call c gets its arguments and is entered.
Call(c) ==
    /\ pc[c] = "idle"
    /\ fn[c] = "idle"
    /\ \E in \in FairInputs :
           LET L == Entered(in)
           IN  /\ fn' = Set1(fn, c, L.fn)
               /\ text' = Set1(text, c, L.text)
               /\ default_attr' = Set1(default_attr, c, L.default_attr)
               /\ default_attr_focus' =
                      Set1(default_attr_focus, c, L.default_attr_focus)
               /\ parse_background' =
                      Set1(parse_background, c, L.parse_background)
               /\ pc' = Set1(pc, c, L.pc)
               /\ i' = Set1(i, c, L.i)
               /\ j' = Set1(j, c, L.j)
               /\ code' = Set1(code, c, L.code)
               /\ args' = Set1(args, c, L.args)
               /\ gen_done' = Set1(gen_done, c, L.gen_done)
               /\ yielded' = Set1(yielded, c, L.yielded)
               /\ joined' = Set1(joined, c, L.joined)
               /\ param_iter' = Set1(param_iter, c, L.param_iter)
               /\ attr' = Set1(attr, c, L.attr)
               /\ urwid_text' = Set1(urwid_text, c, L.urwid_text)
               /\ urwid_focus' = Set1(urwid_focus, c, L.urwid_focus)

\* No call has been made yet; one call is made, on any of the inputs, and
\* once entered it runs until it returns: nothing suspends the function or
\* the generator it iterates.
InitFair == Started([c \in Calls |-> Idle])

NextFair ==
    \/ Next
    \/ Call(1)

SpecFair == InitFair /\ [][NextFair]_vars /\ WF_vars(Next)

\* ------------------------------------------------------------ properties

Done(c, f) == pc[c] = "done" /\ fn[c] = f
Stripped(c) == Done(c, "strip_ansi_escapes")
Styled(c) == Done(c, "parse_escapes_to_urwid")

EscFree(s) == find(s, ESC, 0) = -1

\* C1: stripping is idempotent: stripping the text a call of
\* strip_ansi_escapes returned gives that text again.
C1_StripIdempotent ==
    \A c \in Calls :
        Stripped(c) => strip_ansi_escapes(joined[c]) = joined[c]

\* The positions of t that lie in a recognised CSI sequence or are one of the
\* two bytes of an unrecognised escape, from the locals g on.
RECURSIVE C2_Removed(_, _)
C2_Removed(t, g) ==
    LET st == gen_step(t, g)
    IN  IF st.kind = "break" THEN {}
        ELSE IF st.kind = "skip"
        THEN {st.at, st.at + 1} \cup C2_Removed(t, st.next)
        ELSE (st.at .. st.next.i - 1) \cup C2_Removed(t, st.next)

\* The bytes of t at the positions from k on that are not in removed.
RECURSIVE C2_Kept(_, _, _)
C2_Kept(t, removed, k) ==
    IF k >= Len(t) THEN ""
    ELSE (IF k \in removed THEN "" ELSE CharAt(t, k))
         \o C2_Kept(t, removed, k + 1)

\* C2: the ESC byte of an unrecognised escape and the byte after it are
\* dropped, and every other byte outside the recognised sequences is kept:
\* the stripped text is the input without those bytes.
C2_UnrecognisedDropped ==
    \A c \in Calls :
        Stripped(c) =>
            joined[c] =
                C2_Kept(text[c],
                        C2_Removed(text[c], [i |-> 0, j |-> 0, code |-> None,
                                             args |-> NoneT]),
                        0)

\* C3: a text without ESC is stripped to itself, and the tokenizer yields one
\* segment for it, with no code, no parameters and the whole text.
C3_PlainText ==
    \A c \in Calls :
        (pc[c] = "done" /\ EscFree(text[c])) =>
            /\ parse_ansi_escapes(text[c]) = << <<None, NoneT, text[c]>> >>
            /\ yielded[c] = <<None, NoneT, text[c]>>
            /\ Stripped(c) => joined[c] = text[c]

C3_Witness ==
    \E c \in Calls :
        /\ Stripped(c)
        /\ EscFree(text[c])
        /\ Len(text[c]) = 3
        /\ joined[c] = text[c]

\* The foreground and the background an AttrSpec was built with, the colour
\* a foreground starts with and the style names that follow it.
Foreground(spec) == spec[1]
Background(spec) == spec[2]
Colour(fg) == Head(split(fg, ","))
Mods(fg) == LET parts == split(fg, ",") IN {parts[n] : n \in 2 .. Len(parts)}

\* The foreground of the dict a parse starts with: DefaultAttr's foreground
\* and its bold and underline flags, standout following the underline flag.
C4_StartForeground(da) ==
    da.foreground \o (IF da.bold THEN ",bold" ELSE "")
                  \o (IF da.underline THEN ",underline,standout" ELSE "")

\* C4 as claimed: every text without ESC, the empty text included, is styled
\* as exactly one run, which carries the attribute built from DefaultAttr.
C4_PlainTextOneRun ==
    \A c \in Calls :
        (Styled(c) /\ EscFree(text[c])) =>
            /\ Len(urwid_text[c]) = 1
            /\ urwid_text[c][1][1] =
                   AttrSpec(C4_StartForeground(default_attr[c]),
                            default_attr[c].background)

\* C4 as amended: a non-empty text without ESC is styled as exactly one run
\* with the whole text and the attribute built from DefaultAttr; the empty
\* text is styled as no run.
C4_PlainTextRuns ==
    \A c \in Calls :
        (Styled(c) /\ EscFree(text[c])) =>
            urwid_text[c] =
                IF text[c] = "" THEN <<>>
                ELSE << <<AttrSpec(C4_StartForeground(default_attr[c]),
                                   default_attr[c].background),
                          text[c]>> >>

C4_Witness ==
    \E c \in Calls :
        /\ Styled(c)
        /\ text[c] = "ab"
        /\ default_attr[c].underline
        /\ ~default_attr[c].standout
        /\ Len(urwid_text[c]) = 1

\* DefaultAttr's own foreground: its colour and its bold, underline and
\* standout flags.
C5_DefaultForeground(da) ==
    da.foreground \o (IF da.bold THEN ",bold" ELSE "")
                  \o (IF da.underline THEN ",underline" ELSE "")
                  \o (IF da.standout THEN ",standout" ELSE "")

\* C5: ESC[0m in front of a non-empty text without ESC gives one run with
\* that text, whose attribute is DefaultAttr's foreground, background, bold,
\* underline and standout and no other style.
C5_ResetIsDefaultAttr ==
    \A c \in Calls :
        (/\ Styled(c)
         /\ Slice(text[c], 0, 4) = SGR("0")
         /\ Len(text[c]) > 4
         /\ EscFree(SliceFrom(text[c], 4))) =>
            urwid_text[c] =
                << <<AttrSpec(C5_DefaultForeground(default_attr[c]),
                              default_attr[c].background),
                     SliceFrom(text[c], 4)>> >>

\* The text t is ESC[1m, A, ESC[0m and B, with A and B non-empty and
\* without ESC.
C6_Case(t, A, B) ==
    /\ t = SGR("1") \o A \o SGR("0") \o B
    /\ A # "" /\ EscFree(A)
    /\ B # "" /\ EscFree(B)

\* The run has the text s and the default colours, and is bold iff b.
C6_Run(run, s, b, da) ==
    /\ run[2] = s
    /\ Colour(Foreground(run[1])) = da.foreground
    /\ Background(run[1]) = da.background
    /\ ("bold" \in Mods(Foreground(run[1]))) = b

\* C6 as claimed: ESC[1m A ESC[0m B gives two runs, A bold and B not bold,
\* both in the default colours.
C6_BoldThenNormal ==
    \A c \in Calls : \A n \in 1 .. Len(text[c]) :
        LET A == Slice(text[c], 4, 4 + n)
            B == SliceFrom(text[c], 8 + n)
        IN  (Styled(c) /\ C6_Case(text[c], A, B)) =>
                /\ Len(urwid_text[c]) = 2
                /\ C6_Run(urwid_text[c][1], A, TRUE, default_attr[c])
                /\ C6_Run(urwid_text[c][2], B, FALSE, default_attr[c])

\* C6 as amended: ESC[1m A ESC[0m B gives two runs, A bold and B bold only
\* if DefaultAttr is bold, both in the default colours.
C6_BoldThenDefault ==
    \A c \in Calls : \A n \in 1 .. Len(text[c]) :
        LET A == Slice(text[c], 4, 4 + n)
            B == SliceFrom(text[c], 8 + n)
        IN  (Styled(c) /\ C6_Case(text[c], A, B)) =>
                /\ Len(urwid_text[c]) = 2
                /\ C6_Run(urwid_text[c][1], A, TRUE, default_attr[c])
                /\ C6_Run(urwid_text[c][2], B, default_attr[c].bold,
                          default_attr[c])

C6_Witness ==
    \E c \in Calls :
        /\ Styled(c)
        /\ C6_Case(text[c], "ab", "x")
        /\ default_attr[c].bold
        /\ Len(urwid_text[c]) = 2

\* The colour names of the parameters 30-37 and 40-47, in their order.
C7_Names ==
    <<"black", "dark red", "dark green", "brown", "dark blue",
      "dark magenta", "dark cyan", "light gray">>
C7_Digit(n) == SubSeq("01234567", n + 1, n + 1)

\* Call c takes a step of update_attr's loop on a parameter.
ParamStepOf(c) ==
    /\ pc[c] = "update_attr"
    /\ param_iter[c] # <<>>
    /\ param_iter'[c] # param_iter[c]

\* C7: for n in 0..7 the parameter 30+n sets the foreground and 40+n the
\* background to the n-th colour name, whenever update_attr's loop takes it;
\* ESC[3n m in front of a text gives a run of that foreground colour, and
\* ESC[4n m one of that background when backgrounds are parsed.
C7_BasicColours ==
    /\ [][\A c \in Calls : \A n \in 0 .. 7 :
            ParamStepOf(c) =>
                /\ Head(param_iter[c]) = "3" \o C7_Digit(n) =>
                       attr'[c].fg = C7_Names[n + 1]
                /\ Head(param_iter[c]) = "4" \o C7_Digit(n) =>
                       attr'[c].bg = C7_Names[n + 1]]_vars
    /\ [](\A c \in Calls : \A n \in 0 .. 7 :
            /\ (Styled(c) /\ text[c] = SGR("3" \o C7_Digit(n)) \o "x") =>
                   Colour(Foreground(urwid_text[c][1][1])) = C7_Names[n + 1]
            /\ (/\ Styled(c)
                /\ text[c] = SGR("4" \o C7_Digit(n)) \o "x"
                /\ parse_background[c]) =>
                   Background(urwid_text[c][1][1]) = C7_Names[n + 1])

C7_Witness ==
    \E c \in Calls :
        /\ Styled(c)
        /\ text[c] = SGR("31") \o "x"
        /\ urwid_text[c] = << <<AttrSpec("dark red", "default"), "x">> >>

\* C8: when update_attr's loop takes 38 or 48 followed by 5 and N, the
\* foreground or the background becomes "h" and N, nothing else of the dict
\* changes, and the loop goes on with the parameter after N; ESC[38;5;200m
\* gives the foreground h200, and a 1 after it makes the run bold.
C8_IndexedColour ==
    /\ [][\A c \in Calls :
            (/\ ParamStepOf(c)
             /\ Len(param_iter[c]) >= 3
             /\ Head(param_iter[c]) \in {"38", "48"}
             /\ param_iter[c][2] = "5") =>
                /\ attr'[c] =
                       [attr[c] EXCEPT
                            ![IF Head(param_iter[c]) = "38" THEN "fg"
                              ELSE "bg"] = "h" \o param_iter[c][3]]
                /\ param_iter'[c] =
                       SubSeq(param_iter[c], 4, Len(param_iter[c]))
                /\ pc'[c] = "update_attr"]_vars
    /\ [](\A c \in Calls :
            /\ (Styled(c) /\ text[c] = SGR("38;5;200") \o "x") =>
                   Colour(Foreground(urwid_text[c][1][1])) = "h200"
            /\ (Styled(c) /\ text[c] = SGR("38;5;200;1") \o "x") =>
                   /\ Colour(Foreground(urwid_text[c][1][1])) = "h200"
                   /\ "bold" \in Mods(Foreground(urwid_text[c][1][1]))
            /\ (Styled(c) /\ text[c] = SGR("48;5;17") \o "x") =>
                   attr[c].bg = "h17")

C8_Witness ==
    \E c \in Calls :
        /\ Styled(c)
        /\ text[c] = SGR("38;5;200;1") \o "x"
        /\ urwid_text[c] = << <<AttrSpec("h200,bold", "default"), "x">> >>

\* The numerals of n in two lowercase hexadecimal digits: one for n up to
\* 255, none above.
C9_TwoDigits(n) ==
    {HexDigit(hi) \o HexDigit(lo) : hi \in {h \in 0 .. 15 : h = n \div 16},
                                   lo \in {l \in 0 .. 15 : l = n % 16}}

\* C9: when update_attr's loop takes 38 or 48 followed by 2 and three
\* integers R, G and B, the foreground or the background becomes "#" and R,
\* G and B in two lowercase hexadecimal digits each, and the loop goes on
\* with the parameter after B.
C9_TrueColour ==
    [][\A c \in Calls :
          (/\ ParamStepOf(c)
           /\ Len(param_iter[c]) >= 5
           /\ Head(param_iter[c]) \in {"38", "48"}
           /\ param_iter[c][2] = "2"
           /\ \A n \in 3 .. 5 : IsInt(param_iter[c][n])) =>
              /\ \E r \in C9_TwoDigits(int(param_iter[c][3])) :
                 \E g \in C9_TwoDigits(int(param_iter[c][4])) :
                 \E b \in C9_TwoDigits(int(param_iter[c][5])) :
                     attr'[c][IF Head(param_iter[c]) = "38" THEN "fg"
                              ELSE "bg"] = "#" \o r \o g \o b
              /\ param_iter'[c] =
                     SubSeq(param_iter[c], 6, Len(param_iter[c]))]_vars

\* The colour string is "h" and a decimal numeral of 0..255.
C10_IsIndexed(colour) ==
    /\ IsInt(SliceFrom(colour, 1))
    /\ int(SliceFrom(colour, 1)) <= 255

\* C10: every indexed colour, a colour that starts with "h", that is stored
\* in the dict or carried by a run is "h" and a decimal numeral of 0..255.
C10_IndexedInRange ==
    \A c \in Calls :
        /\ \A k \in DOMAIN attr[c] \cap {"fg", "bg"} :
               Slice(attr[c][k], 0, 1) = "h" => C10_IsIndexed(attr[c][k])
        /\ \A n \in 1 .. Len(urwid_text[c]) :
               /\ Slice(Colour(Foreground(urwid_text[c][n][1])), 0, 1) = "h"
                      => C10_IsIndexed(Colour(Foreground(urwid_text[c][n][1])))
               /\ Slice(Background(urwid_text[c][n][1]), 0, 1) = "h"
                      => C10_IsIndexed(Background(urwid_text[c][n][1]))

C11_HexDigits ==
    {"0", "1", "2", "3", "4", "5", "6", "7", "8", "9",
     "a", "b", "c", "d", "e", "f"}

\* The colour string is "#" and six lowercase hexadecimal digits.
C11_IsTrueColour(colour) ==
    /\ Len(colour) = 7
    /\ \A k \in 1 .. 6 : CharAt(colour, k) \in C11_HexDigits

\* C11: every truecolour value, a colour that starts with "#", that is stored
\* in the dict or carried by a run is "#" and exactly six lowercase
\* hexadecimal digits, whatever integer components the input gives.
C11_TrueColourSixDigits ==
    \A c \in Calls :
        /\ \A k \in DOMAIN attr[c] \cap {"fg", "bg"} :
               Slice(attr[c][k], 0, 1) = "#" => C11_IsTrueColour(attr[c][k])
        /\ \A n \in 1 .. Len(urwid_text[c]) :
               /\ Slice(Colour(Foreground(urwid_text[c][n][1])), 0, 1) = "#"
                      => C11_IsTrueColour(
                             Colour(Foreground(urwid_text[c][n][1])))
               /\ Slice(Background(urwid_text[c][n][1]), 0, 1) = "#"
                      => C11_IsTrueColour(Background(urwid_text[c][n][1]))

\* What call c returns on its text with the first n bytes replaced by head.
C12_ResultOn(c, head, n) ==
    parse_escapes_to_urwid(head \o SliceFrom(text[c], n), default_attr[c],
                           default_attr_focus[c], parse_background[c])

\* Call c, which has returned, returned what it returns on its text with the
\* first escape, which is SGR(p), replaced by head.
C12_SameAs(c, p, head) ==
    (Styled(c) /\ Slice(text[c], 0, Len(SGR(p))) = SGR(p)) =>
        /\ urwid_text[c] = C12_ResultOn(c, head, Len(SGR(p))).urwid_text
        /\ urwid_focus[c] = C12_ResultOn(c, head, Len(SGR(p))).urwid_focus

\* The parameter is not 0 or empty, not in the table and not 38, 48 or 58.
C12_Unknown(param) ==
    /\ param \notin {"", "0"}
    /\ param \notin DOMAIN ECODES
    /\ param \notin {"38", "48", "58"}

\* C12: when update_attr's loop takes an unknown parameter, the dict stays as
\* it was and the loop goes on with the next parameter; a text whose first
\* escape holds an unknown parameter is styled as the text without that
\* parameter, and one whose first escape holds nothing else as the text
\* without that escape.
C12_UnknownIgnored ==
    /\ [][\A c \in Calls :
            (ParamStepOf(c) /\ C12_Unknown(Head(param_iter[c]))) =>
                /\ attr'[c] = attr[c]
                /\ param_iter'[c] = Tail(param_iter[c])
                /\ pc'[c] = "update_attr"]_vars
    /\ [](\A c \in Calls :
            /\ C12_SameAs(c, "99", "")
            /\ C12_SameAs(c, "1;99;4", SGR("1;4"))
            /\ C12_SameAs(c, "?;31", SGR("31"))
            /\ \A g \in Groups : C12_SameAs(c, "99;" \o g, SGR(g)))

C12_Witness ==
    \E c \in Calls :
        /\ Styled(c)
        /\ text[c] = SGR("1;99;4") \o "ab" \o SGR("31") \o "x"
        /\ urwid_text[c] =
               << <<AttrSpec("default,bold,underline", "default"), "ab">>,
                  <<AttrSpec("dark red,bold,underline", "default"), "x">> >>

\* C13: when update_attr's loop takes 38, 48 or 58 followed by a colour type
\* other than 5 and 2, the dict is after the escape what it was before that
\* parameter: nothing after the colour type changes it.
C13_RestAbandoned ==
    [][\A c \in Calls :
          (/\ ParamStepOf(c)
           /\ Head(param_iter[c]) \in {"38", "48", "58"}
           /\ Len(param_iter[c]) >= 2
           /\ param_iter[c][2] \notin {"5", "2"}) =>
              update_params(attr'[c], default_attr[c], param_iter'[c])
                  = attr[c]]_vars

\* param_iter ends before the 38, 48 or 58 at its head has its values.
C14_Incomplete(it) ==
    /\ Head(it) \in {"38", "48", "58"}
    /\ \/ Len(it) = 1
       \/ it[2] = "5" /\ Len(it) = 2
       \/ it[2] = "2" /\ Len(it) < 5

\* First escapes that end in an incomplete 38, 48 or 58, and the parameters
\* in front of it.
C14_Cases ==
    {<<"1;38", "1">>, <<"31;38", "31">>, <<"4;48;5", "4">>,
     <<"42;48;5", "42">>, <<"1;58", "1">>, <<"1;38;2;1;2", "1">>,
     <<"31;38;2;1", "31">>, <<"41;48;2", "41">>}

\* C14: when param_iter ends before 38, 48 or 58 has its values, the dict
\* stays as the earlier parameters left it and the escape's loop is left; a
\* text whose first escape ends that way is styled as the text with only the
\* earlier parameters in that escape, next escape included.
C14_IncompleteColour ==
    /\ [][\A c \in Calls :
            (ParamStepOf(c) /\ C14_Incomplete(param_iter[c])) =>
                /\ attr'[c] = attr[c]
                /\ pc'[c] = "append"]_vars
    /\ [](\A c \in Calls : \A case \in C14_Cases :
            C12_SameAs(c, case[1], SGR(case[2])))

C14_Witness ==
    \E c \in Calls :
        /\ Styled(c)
        /\ text[c] = SGR("31;38") \o "ab" \o SGR("1") \o "x"
        /\ urwid_text[c] =
               << <<AttrSpec("dark red", "default"), "ab">>,
                  <<AttrSpec("dark red,bold", "default"), "x">> >>

\* C15: when update_attr's loop takes 38 or 48 followed by 2 and three
\* components of which one is no integer, the dict stays as it was and the
\* loop goes on with the parameter after the three components; a text whose
\* first escape holds such a colour is styled as the text without it.
C15_MalformedRGB ==
    /\ [][\A c \in Calls :
            (/\ ParamStepOf(c)
             /\ Len(param_iter[c]) >= 5
             /\ Head(param_iter[c]) \in {"38", "48"}
             /\ param_iter[c][2] = "2"
             /\ \E n \in 3 .. 5 : ~IsInt(param_iter[c][n])) =>
                /\ attr'[c] = attr[c]
                /\ param_iter'[c] =
                       SubSeq(param_iter[c], 6, Len(param_iter[c]))
                /\ pc'[c] = "update_attr"]_vars
    /\ [](\A c \in Calls :
            /\ C12_SameAs(c, "38;2;1;?;3;7", SGR("7"))
            /\ C12_SameAs(c, "31;38;2;<;2;3;1", SGR("31;1"))
            /\ C12_SameAs(c, "48;2;1;2;>;44", SGR("44")))

C15_Witness ==
    \E c \in Calls :
        /\ Styled(c)
        /\ text[c] = SGR("31;38;2;<;2;3;1") \o "ab" \o SGR("") \o "x"
        /\ urwid_text[c] =
               << <<AttrSpec("dark red,bold", "default"), "ab">>,
                  <<AttrSpec("default", "default"), "x">> >>

\* Call c is in append_themed_infix with an empty infix, and with any other.
C17_EmptyInfix(c) == pc[c] = "append" /\ yielded[c][3] = ""
RunAppended(c) == pc[c] = "append" /\ yielded[c][3] # ""

\* The runs and the attribute of the n-th run of call c.
Runs(c) == 1 .. Len(urwid_text[c])
RunAttr(c, n) == urwid_text[c][n][1]

\* C17: no run has an empty text: append_themed_infix on an empty infix
\* leaves the runs and the focus map as they are, and a text that starts
\* with two adjacent escapes is styled as the text with the parameters of
\* both in one escape.
C17_NoEmptyRun ==
    /\ [][\A c \in Calls :
            C17_EmptyInfix(c) =>
                /\ urwid_text'[c] = urwid_text[c]
                /\ urwid_focus'[c] = urwid_focus[c]]_vars
    /\ [](\A c \in Calls :
            /\ \A n \in Runs(c) : urwid_text[c][n][2] # ""
            /\ \A p1 \in ThemeParams : \A p2 \in ThemeParams :
                   (/\ Styled(c)
                    /\ Slice(text[c], 0, Len(SGR(p1) \o SGR(p2)))
                           = SGR(p1) \o SGR(p2)) =>
                       urwid_text[c] =
                           C12_ResultOn(c, SGR(p1 \o ";" \o p2),
                                        Len(SGR(p1) \o SGR(p2))).urwid_text)

C17_Witness ==
    \E c \in Calls :
        /\ Styled(c)
        /\ text[c] = SGR("1") \o SGR("31") \o "x"
        /\ urwid_text[c] = << <<AttrSpec("dark red,bold", "default"), "x">> >>
        /\ DOMAIN urwid_focus[c] = {NoneT, AttrSpec("dark red,bold", "default")}

\* C18: after a parse the keys of the focus map are None and the attributes
\* of the runs, and every key is mapped to the focused attribute the caller
\* gave.
C18_FocusMap ==
    \A c \in Calls :
        Styled(c) =>
            /\ DOMAIN urwid_focus[c] =
                   {NoneT} \cup {RunAttr(c, n) : n \in Runs(c)}
            /\ \A k \in DOMAIN urwid_focus[c] :
                   urwid_focus[c][k] = default_attr_focus[c]

C18_Witness ==
    \E c \in Calls :
        /\ Styled(c)
        /\ text[c] = SGR("9;1") \o "ab" \o SGR("31") \o "x"
        /\ default_attr_focus[c] = None
        /\ Cardinality(DOMAIN urwid_focus[c]) = 3

\* C19: the background of the run append_themed_infix adds is the dict's
\* background when backgrounds are parsed and DefaultAttr's when they are
\* not; then every run has DefaultAttr's background.
C19_Background ==
    /\ [][\A c \in Calls :
            RunAppended(c) =>
                Background(urwid_text'[c][Len(urwid_text'[c])][1]) =
                    IF parse_background[c] THEN attr[c].bg
                    ELSE default_attr[c].background]_vars
    /\ [](\A c \in Calls : \A n \in Runs(c) :
            ~parse_background[c] =>
                Background(RunAttr(c, n)) = default_attr[c].background)

C19_Witness ==
    \E c \in Calls :
        /\ Styled(c)
        /\ ~parse_background[c]
        /\ text[c] = SGR("42;48;5") \o "ab" \o SGR("48;5;17") \o "x"
        /\ attr[c].bg = "h17"
        /\ urwid_text[c] =
               << <<AttrSpec("light gray", "dark blue"), "ab">>,
                  <<AttrSpec("light gray", "dark blue"), "x">> >>

\* The style bit is in the dict and true.
C20_Bit(a, mod) == mod \in DOMAIN a /\ a[mod]

\* The dict's foreground colour and the names of its true style bits.
C20_Expected(a) ==
    a.fg \o (IF C20_Bit(a, "bold") THEN ",bold" ELSE "")
         \o (IF C20_Bit(a, "underline") THEN ",underline" ELSE "")
         \o (IF C20_Bit(a, "standout") THEN ",standout" ELSE "")
         \o (IF C20_Bit(a, "blink") THEN ",blink" ELSE "")
         \o (IF C20_Bit(a, "italics") THEN ",italics" ELSE "")
         \o (IF C20_Bit(a, "strikethrough") THEN ",strikethrough" ELSE "")

\* The parameters that set a style bit.
C20_BitParams == {"1", "3", "4", "5", "7", "9"}

\* C20: the foreground of the run append_themed_infix adds is the dict's
\* foreground colour and ",name" for every true style bit, in the order bold,
\* underline, standout, blink, italics, strikethrough; two style parameters
\* give the same runs in either order.
C20_Foreground ==
    /\ [][\A c \in Calls :
            RunAppended(c) =>
                Foreground(urwid_text'[c][Len(urwid_text'[c])][1]) =
                    C20_Expected(attr[c])]_vars
    /\ [](\A c \in Calls : \A p \in C20_BitParams : \A q \in C20_BitParams :
            C12_SameAs(c, p \o ";" \o q, SGR(q \o ";" \o p)))

C20_Witness ==
    \E c \in Calls :
        /\ Styled(c)
        /\ text[c] = SGR("9;1") \o "x"
        /\ urwid_text[c] =
               << <<AttrSpec("default,bold,strikethrough", "default"), "x">> >>

\* The texts of the runs, joined.
RECURSIVE RunTexts(_)
RunTexts(runs) ==
    IF runs = <<>> THEN "" ELSE Head(runs)[2] \o RunTexts(Tail(runs))

\* What may stand in front of the CSI sequence, and the text in it.
C21_Leads ==
    {<<"", "">>, <<"ab", "ab">>, <<SGR("1") \o "ab", "ab">>,
     <<SGR("42") \o "ab", "ab">>}

\* Call c is at the for loop's body with a CSI sequence that is no SGR.
C21_NonSgrSegment(c) ==
    /\ pc[c] = "consume"
    /\ fn[c] = "parse_escapes_to_urwid"
    /\ yielded[c][1] = "["
    /\ yielded[c][2][3] # "m"

\* C21: a CSI sequence whose final byte is not m leaves the dict as it is,
\* whatever its parameter bytes: the for loop's body goes to
\* append_themed_infix without a change, every run of a text with one such
\* sequence has the attribute of the text in front of it, and the sequence
\* is in no run and not in the stripped text.
C21_NonSgrNoChange ==
    /\ [][\A c \in Calls :
            C21_NonSgrSegment(c) =>
                /\ attr'[c] = attr[c]
                /\ pc'[c] = "append"]_vars
    /\ [](\A c \in Calls : \A lead \in C21_Leads :
          \A p \in CsiParams : \A f \in CsiFinals :
            LET pre == lead[1] \o CSI(p, f)
                rest == SliceFrom(text[c], Len(pre))
                first == parse_escapes_to_urwid(
                             lead[1] \o "x", default_attr[c],
                             default_attr_focus[c],
                             parse_background[c]).urwid_text[1][1]
            IN  (/\ pc[c] = "done"
                 /\ Slice(text[c], 0, Len(pre)) = pre
                 /\ EscFree(rest)) =>
                    /\ Stripped(c) => joined[c] = lead[2] \o rest
                    /\ Styled(c) =>
                           /\ RunTexts(urwid_text[c]) = lead[2] \o rest
                           /\ \A n \in Runs(c) : RunAttr(c, n) = first)

C21_Witness ==
    \E c \in Calls :
        /\ Styled(c)
        /\ text[c] = SGR("1") \o "ab" \o CSI("31", "H") \o "x"
        /\ urwid_text[c] =
               << <<AttrSpec("default,bold", "default"), "ab">>,
                  <<AttrSpec("default,bold", "default"), "x">> >>

\* What call c returns when it runs alone.
Alone(c) ==
    parse_escapes_to_urwid(text[c], default_attr[c], default_attr_focus[c],
                           parse_background[c])

\* C22: calls that share DefaultAttr and take their steps in any order each
\* return what they return when they run alone: the same runs and focus
\* map, and the same stripped text.
C22_Interleaved ==
    \A c \in Calls :
        /\ Styled(c) =>
               /\ urwid_text[c] = Alone(c).urwid_text
               /\ urwid_focus[c] = Alone(c).urwid_focus
        /\ Stripped(c) => joined[c] = strip_ansi_escapes(text[c])

C22_Witness ==
    /\ Styled(1)
    /\ Styled(2)
    /\ text[1] = SGR("1") \o "ab"
    /\ text[2] = SGR("31") \o "ab" \o SGR("0") \o "x"
    /\ urwid_text[1] = << <<AttrSpec("default,bold", "default"), "ab">> >>
    /\ urwid_text[2] =
           << <<AttrSpec("dark red", "default"), "ab">>,
              <<AttrSpec("default", "default"), "x">> >>

\* C23: no state is kept between calls: a call is entered with fresh locals
\* whatever another call has left behind, so a text without ESC is styled
\* in DefaultAttr's attribute also after a call that set a style and never
\* reset it, and calls with the same arguments return the same.
C23_NoStateKept ==
    /\ [][\A c \in Calls :
            (pc[c] = "idle" /\ pc'[c] # "idle") =>
                /\ attr'[c] = IF fn[c] = "parse_escapes_to_urwid"
                              THEN InitialAttr(default_attr[c]) ELSE <<>>
                /\ urwid_text'[c] = <<>>
                /\ param_iter'[c] = <<>>
                /\ joined'[c] = ""
                /\ i'[c] = 0 /\ j'[c] = 0
                /\ code'[c] = None /\ args'[c] = NoneT]_vars
    /\ [](\A c \in Calls : \A d \in Calls :
            /\ (Styled(c) /\ EscFree(text[c]) /\ text[c] # "") =>
                   urwid_text[c] =
                       << <<ThemedAttr(InitialAttr(default_attr[c]),
                                       default_attr[c], parse_background[c]),
                            text[c]>> >>
            /\ (Styled(c) /\ Styled(d) /\ Arguments(c) = Arguments(d)) =>
                   /\ urwid_text[c] = urwid_text[d]
                   /\ urwid_focus[c] = urwid_focus[d])

C23_Witness ==
    /\ Styled(1)
    /\ text[1] = SGR("1") \o "ab"
    /\ attr[1].bold
    /\ ~default_attr[1].bold
    /\ Styled(2)
    /\ text[2] = "ab"
    /\ urwid_text[2] = << <<AttrSpec("default", "default"), "ab">> >>

\* Call c takes a step of update_attr's loop on the parameter 0.
ResetStepOf(c) == ParamStepOf(c) /\ Head(param_iter[c]) \in {"", "0"}

\* The attribute of the only run of the text t under the arguments of c.
RunAttrOf(c, t) ==
    parse_escapes_to_urwid(t, default_attr[c], default_attr_focus[c],
                           parse_background[c]).urwid_text[1][1]

\* The groups after which update_attr's loop takes the next field as a
\* parameter.
C24_Complete == Groups \ {"38", "48", "58", "38;5", "38;2;1;2"}

\* C24: whenever update_attr's loop takes the parameter 0, the dict becomes
\* the dict the parse started with: DefaultAttr's foreground, background,
\* bold and underline, and no blink, italics or strikethrough; what a text
\* is styled as after a 0 does not depend on what came before the 0.
C24_ResetToStart ==
    /\ [][\A c \in Calls :
            ResetStepOf(c) =>
                /\ attr'[c] = InitialAttr(default_attr[c])
                /\ attr'[c].fg = default_attr[c].foreground
                /\ attr'[c].bg = default_attr[c].background
                /\ attr'[c].bold = default_attr[c].bold
                /\ attr'[c].underline = default_attr[c].underline
                /\ \A mod \in {"blink", "italics", "strikethrough"} :
                       ~C20_Bit(attr'[c], mod)]_vars
    /\ [](\A c \in Calls :
            /\ \A g \in C24_Complete : C12_SameAs(c, g \o ";0", SGR("0"))
            /\ C12_SameAs(c, "3;9;0;4", SGR("0;4"))
            /\ \A p1 \in ThemeParams : \A p2 \in {"", "0"} :
                   (/\ Styled(c)
                    /\ text[c] = SGR(p1) \o "ab" \o SGR(p2) \o "x") =>
                       RunAttr(c, 2) = RunAttrOf(c, "x"))

C24_Witness ==
    \E c \in Calls :
        /\ Styled(c)
        /\ text[c] = SGR("3;9;0;4") \o "x"
        /\ default_attr[c].bold
        /\ urwid_text[c] =
               << <<AttrSpec("default,bold,underline", "default"), "x">> >>

\* Call c has entered parse_escapes_to_urwid and taken no segment yet.
C25_AtStart(c) ==
    /\ fn[c] = "parse_escapes_to_urwid"
    /\ pc[c] = "gen"
    /\ yielded[c] = <<>>

\* C25: at the start of a parse and after every reset the standout bit is
\* DefaultAttr's underline flag, whatever DefaultAttr's standout flag is,
\* and only the parameter 7 and a reset ever change it.
C25_StandoutFromUnderline ==
    /\ [][\A c \in Calls :
            ("standout" \in DOMAIN attr[c]) =>
                /\ ResetStepOf(c) =>
                       attr'[c].standout = default_attr[c].underline
                /\ attr'[c].standout # attr[c].standout =>
                       \/ ResetStepOf(c)
                       \/ /\ ParamStepOf(c)
                          /\ Head(param_iter[c]) = "7"
                          /\ attr'[c].standout]_vars
    /\ [](\A c \in Calls :
            /\ C25_AtStart(c) =>
                   attr[c].standout = default_attr[c].underline
            /\ \A t \in {"ab", SGR("0") \o "ab", SGR("") \o "ab"} :
                   (Styled(c) /\ text[c] = t) =>
                       ("standout" \in Mods(Foreground(RunAttr(c, 1))))
                           = default_attr[c].underline)

C25_Witness ==
    \E c \in Calls :
        /\ Styled(c)
        /\ text[c] = SGR("0") \o "ab"
        /\ default_attr[c].standout
        /\ ~default_attr[c].underline
        /\ urwid_text[c] = << <<AttrSpec("default", "default"), "ab">> >>

\* The parameters that may change the foreground and the background.
C26_FgParams ==
    {"", "0", "38", "30", "31", "32", "33", "34", "35", "36", "37"}
C26_BgParams ==
    {"", "0", "48", "40", "41", "42", "43", "44", "45", "46", "47"}

\* C26: the dict is cumulative: only a step of update_attr's loop changes
\* it, only a reset turns a style bit off, and only a reset or a parameter
\* for the same channel changes a colour; the run after a second escape
\* carries what the first escape set and the second did not change.
C26_Cumulative ==
    /\ [][\A c \in Calls :
            (attr[c] # <<>> /\ attr'[c] # attr[c]) =>
                /\ ParamStepOf(c)
                /\ \A n \in 1 .. Len(URWID_MODS) :
                       (/\ C20_Bit(attr[c], URWID_MODS[n])
                        /\ ~C20_Bit(attr'[c], URWID_MODS[n])) =>
                           ResetStepOf(c)
                /\ attr'[c].fg # attr[c].fg =>
                       Head(param_iter[c]) \in C26_FgParams
                /\ attr'[c].bg # attr[c].bg =>
                       Head(param_iter[c]) \in C26_BgParams]_vars
    /\ [](\A c \in Calls : \A p1 \in ThemeParams : \A p2 \in ThemeParams :
            (Styled(c) /\ text[c] = SGR(p1) \o "ab" \o SGR(p2) \o "x") =>
                urwid_text[c] =
                    << <<RunAttrOf(c, SGR(p1) \o "x"), "ab">>,
                       <<RunAttrOf(c, SGR(p1 \o ";" \o p2) \o "x"), "x">> >>)

C26_Witness ==
    \E c \in Calls :
        /\ Styled(c)
        /\ text[c] = SGR("1") \o "ab" \o SGR("31") \o "x"
        /\ urwid_text[c] =
               << <<AttrSpec("default,bold", "default"), "ab">>,
                  <<AttrSpec("dark red,bold", "default"), "x">> >>

\* Parameters of one field that need no other field.
C27_Singles ==
    {"0", "1", "3", "4", "5", "7", "9", "31", "32", "37", "41", "42", "99"}

\* The text of call c is the SGR sequence with the parameters p, and x.
C27_Sgr(c, p) == Styled(c) /\ text[c] = SGR(p) \o "x"

\* C27: the parameters of an escape are applied from left to right and the
\* last one for a channel wins: 31;32 gives dark green and 32;31 dark red,
\* after 1;0 bold is DefaultAttr's and after 0;1 it is set, and two
\* parameters leave the dict the second leaves on the dict the first left.
C27_LeftToRight ==
    \A c \in Calls :
        /\ C27_Sgr(c, "31;32") =>
               Colour(Foreground(RunAttr(c, 1))) = "dark green"
        /\ C27_Sgr(c, "32;31") =>
               Colour(Foreground(RunAttr(c, 1))) = "dark red"
        /\ (C27_Sgr(c, "41;42") /\ parse_background[c]) =>
               Background(RunAttr(c, 1)) = "dark green"
        /\ C27_Sgr(c, "1;0") =>
               ("bold" \in Mods(Foreground(RunAttr(c, 1))))
                   = default_attr[c].bold
        /\ C27_Sgr(c, "0;1") => "bold" \in Mods(Foreground(RunAttr(c, 1)))
        /\ \A g1 \in C27_Singles : \A g2 \in C27_Singles :
               C27_Sgr(c, g1 \o ";" \o g2) =>
                   attr[c] =
                       update_attr(update_attr(InitialAttr(default_attr[c]),
                                               default_attr[c], g1, "m"),
                                   default_attr[c], g2, "m")

C27_Witness ==
    \E c \in Calls :
        /\ C27_Sgr(c, "1;0")
        /\ default_attr[c].bold
        /\ default_attr[c].underline
        /\ urwid_text[c] =
               << <<AttrSpec("default,bold,underline,standout", "default"),
                    "x">> >>

\* C28: every empty field counts as the parameter 0: an escape with empty
\* fields is styled as the escape with 0 in their place, no parameter and a
\* leading, doubled or trailing ";" reset, an empty colour index gives h0
\* and empty RGB components give 00.
C28_EmptyIsZero ==
    \A c \in Calls :
        /\ C12_SameAs(c, "", SGR("0"))
        /\ C12_SameAs(c, ";", SGR("0;0"))
        /\ C12_SameAs(c, ";1", SGR("0;1"))
        /\ C12_SameAs(c, "1;", SGR("1;0"))
        /\ C12_SameAs(c, "1;;4", SGR("1;0;4"))
        /\ C12_SameAs(c, "38;5;", SGR("38;5;0"))
        /\ C12_SameAs(c, "48;5;;1", SGR("48;5;0;1"))
        /\ C12_SameAs(c, "38;2;;;", SGR("38;2;0;0;0"))
        /\ C12_SameAs(c, "48;2;1;;3;4", SGR("48;2;1;0;3;4"))
        /\ \A p \in {"", ";", "1;"} :
               C27_Sgr(c, p) => RunAttr(c, 1) = RunAttrOf(c, "x")
        /\ C27_Sgr(c, "1;;4") =>
               ("bold" \in Mods(Foreground(RunAttr(c, 1))))
                   = default_attr[c].bold
        /\ C27_Sgr(c, "38;5;") => Colour(Foreground(RunAttr(c, 1))) = "h0"
        /\ C27_Sgr(c, "38;2;;;") =>
               Colour(Foreground(RunAttr(c, 1))) = "#000000"
        /\ (C27_Sgr(c, "48;2;1;;3;4") /\ parse_background[c]) =>
               Background(RunAttr(c, 1)) = "#010003"

C28_Witness ==
    \E c \in Calls :
        /\ C27_Sgr(c, "48;5;;1")
        /\ parse_background[c]
        /\ urwid_text[c] = << <<AttrSpec("default,bold", "h0"), "x">> >>

\* param_iter starts with 58 and a colour that has all its values.
C29_UnderlineColour(it) ==
    /\ Head(it) = "58"
    /\ \/ Len(it) >= 3 /\ it[2] = "5"
       \/ Len(it) >= 5 /\ it[2] = "2"

\* C29: when update_attr's loop takes 58 followed by 5 and an index or by 2
\* and three components, the dict stays as it is and the loop goes on with
\* the parameter after the index or the components, as for 38 and 48; an
\* escape is styled as the escape without its underline colour.
C29_UnderlineColourSkipped ==
    /\ [][\A c \in Calls :
            (ParamStepOf(c) /\ C29_UnderlineColour(param_iter[c])) =>
                /\ attr'[c] = attr[c]
                /\ param_iter'[c] =
                       SubSeq(param_iter[c],
                              IF param_iter[c][2] = "5" THEN 4 ELSE 6,
                              Len(param_iter[c]))
                /\ pc'[c] = "update_attr"]_vars
    /\ [](\A c \in Calls :
            /\ C12_SameAs(c, "58;5;1;4", SGR("4"))
            /\ C12_SameAs(c, "58;2;1;2;3;4", SGR("4"))
            /\ C12_SameAs(c, "58;5;7", "")
            /\ C12_SameAs(c, "58;2;7;7;7", "")
            /\ C12_SameAs(c, "58;5;1", ""))

C29_Witness ==
    \E c \in Calls :
        /\ C27_Sgr(c, "58;2;1;2;3;4")
        /\ ~default_attr[c].underline
        /\ urwid_text[c] =
               << <<AttrSpec("default,underline", "default"), "x">> >>

\* The CSI sequences the scan of t recognises from pos on, each as the
\* offsets of its first byte and of the byte after its last, in input order.
RECURSIVE C30_Spans(_, _)
C30_Spans(t, pos) ==
    LET jj == find(t, ESC, pos)
    IN  IF jj = -1 \/ jj + 1 >= Len(t) THEN <<>>
        ELSE IF CharAt(t, jj + 1) = "[" /\ parse_csi(t, jj)[1] # NoneT
             THEN <<<<jj, parse_csi(t, jj)[2]>>>>
                      \o C30_Spans(t, parse_csi(t, jj)[2])
             ELSE C30_Spans(t, jj + 2)

\* The text between the sequences n - 1 and n of the recognised sequences sp
\* of t, the text in front of the first and the text after the last.
C30_Text(t, sp, n) ==
    Slice(t, IF n = 1 THEN 0 ELSE sp[n - 1][2],
             IF n = Len(sp) + 1 THEN Len(t) ELSE sp[n][1])

\* How many of the sequences sp end at or before the offset k.
C30_Count(sp, k) == Cardinality({m \in 1 .. Len(sp) : sp[m][2] <= k})

\* The segment n of t has nothing between the sequences, or the sequence
\* and the end of the input, on its two sides.
C30_Adjacent(t, sp, n) ==
    \/ n <= Len(sp) /\ sp[n][1] = (IF n = 1 THEN 0 ELSE sp[n - 1][2])
    \/ n = Len(sp) + 1 /\ n > 1 /\ sp[n - 1][2] = Len(t)

\* C30: the tokenizer yields one segment for every CSI sequence it
\* recognises, with the text in front of it, and one more after the last, in
\* input order; the text of a segment is empty when two recognised sequences
\* are adjacent and when one starts or ends the input.
C30_OneSegmentMore ==
    /\ [][\A c \in Calls :
            (pc[c] = "gen" /\ (i'[c] # i[c] \/ pc'[c] # pc[c])) =>
                LET t == text[c]
                    sp == C30_Spans(t, 0)
                    before == C30_Count(sp, i[c])
                IN  /\ pc'[c] = "consume"
                    /\ IF gen_done'[c]
                       THEN /\ i'[c] = i[c]
                            /\ before = Len(sp)
                            /\ yielded'[c][3] = C30_Text(t, sp, Len(sp) + 1)
                       ELSE /\ before < Len(sp)
                            /\ i'[c] = sp[before + 1][2]
                            /\ yielded'[c][3] = C30_Text(t, sp, before + 1)]_vars
    /\ [](\A c \in Calls :
            (fn[c] # "idle" /\ pc[c] = "consume") =>
                LET t == text[c]
                    sp == C30_Spans(t, 0)
                    segments == parse_ansi_escapes(t)
                    n == IF gen_done[c] THEN Len(sp) + 1
                         ELSE C30_Count(sp, i[c])
                IN  /\ Len(segments) = Len(sp) + 1
                    /\ \A m \in 1 .. Len(sp) + 1 :
                           segments[m][3] = C30_Text(t, sp, m)
                    /\ yielded[c][3] = C30_Text(t, sp, n)
                    /\ C30_Adjacent(t, sp, n) => yielded[c][3] = "")
    /\ [](\A c \in Calls : gen_done[c] => pc[c] # "gen")

C30_Witness ==
    \E c \in Calls :
        /\ text[c] = SGR("") \o CSI("", "x")
        /\ pc[c] = "consume"
        /\ ~gen_done[c]
        /\ i[c] = 6
        /\ yielded[c][1] = "["
        /\ yielded[c][2][3] = "m"
        /\ yielded[c][3] = ""

\* The bytes of the CSI sequence with the parameters, intermediates and final
\* byte in a.
C31_Sequence(a) == ESC \o "[" \o a[1] \o a[2] \o a[3]

\* The code and the parameters of segment n of t: none for the first, and
\* those of the recognised sequence n - 1 of sp for the others.
C31_Carried(t, sp, n) ==
    IF n = 1 THEN <<None, NoneT>>
    ELSE <<"[", parse_csi(t, sp[n - 1][1])[1]>>

\* C31: every segment the tokenizer yields carries the code and the
\* parameters of the recognised CSI sequence that ends where its text
\* starts; the first segment carries no code and no parameters, and the last
\* segment carries those of the last recognised sequence.
C31_CarriesPrevious ==
    \A c \in Calls :
        (fn[c] # "idle" /\ pc[c] = "consume") =>
            LET t == text[c]
                sp == C30_Spans(t, 0)
                segments == parse_ansi_escapes(t)
                n == IF gen_done[c] THEN Len(sp) + 1 ELSE C30_Count(sp, i[c])
            IN  /\ <<yielded[c][1], yielded[c][2]>> = C31_Carried(t, sp, n)
                /\ n > 1 =>
                       /\ C31_Sequence(yielded[c][2])
                              = Slice(t, sp[n - 1][1], sp[n - 1][2])
                       /\ yielded[c][3]
                              = Slice(t, sp[n - 1][2],
                                      IF n = Len(sp) + 1 THEN Len(t)
                                      ELSE sp[n][1])
                /\ \A m \in 1 .. Len(segments) :
                       <<segments[m][1], segments[m][2]>>
                           = C31_Carried(t, sp, m)

C31_Witness ==
    \E c \in Calls :
        /\ text[c] = "ab" \o CSI("?25", " q") \o "ab"
        /\ pc[c] = "consume"
        /\ gen_done[c]
        /\ yielded[c] = <<"[", <<"?25", " ", "q">>, "ab">>

\* The last byte of t is ESC.
C32_EndsWithESC(t) == Len(t) > 0 /\ CharAt(t, Len(t) - 1) = ESC

\* What holds of the last segment of a text that ends with ESC.
C32_LastSegment(c) ==
    /\ pc[c] = "consume" =>
           /\ yielded[c][3] = SliceFrom(text[c], i[c])
           /\ C32_EndsWithESC(yielded[c][3])
    /\ Stripped(c) => C32_EndsWithESC(joined[c])
    /\ Styled(c) => C32_EndsWithESC(RunTexts(urwid_text[c]))

\* C32 as stated: when the last byte of the text is ESC the loop is left with
\* the scan position on that byte, the last segment is the text from i on
\* with that byte, and the stripped text ends with ESC.
C32_StopsAtTrailingESC ==
    \A c \in Calls :
        (gen_done[c] /\ C32_EndsWithESC(text[c])) =>
            /\ j[c] = Len(text[c]) - 1
            /\ C32_LastSegment(c)

\* C32, amended: when the last byte of the text is ESC the loop is left with
\* the scan position on that byte, or, when that byte is the second byte of
\* an unrecognised escape, after the scan has gone past it and found no ESC;
\* in both cases the last segment is the text from i on with that byte, and
\* the stripped text ends with ESC.
C32_TrailingESCKept ==
    /\ [][\A c \in Calls :
            (/\ pc[c] = "gen"
             /\ C32_EndsWithESC(text[c])) =>
                /\ j'[c] = Len(text[c]) =>
                       /\ j[c] <= Len(text[c]) - 2
                       /\ find(text[c], ESC, j[c]) = Len(text[c]) - 2
                       /\ ~gen_done'[c]
                /\ gen_done'[c] =>
                       \/ j'[c] = Len(text[c]) - 1
                       \/ j'[c] = -1 /\ j[c] = Len(text[c])]_vars
    /\ [](\A c \in Calls :
            (gen_done[c] /\ C32_EndsWithESC(text[c])) =>
                /\ j[c] \in {Len(text[c]) - 1, -1}
                /\ C32_LastSegment(c))

C32_Witness ==
    \E c \in Calls :
        /\ Stripped(c)
        /\ text[c] = SGR("") \o "x" \o ESC
        /\ j[c] = 4
        /\ joined[c] = "x" \o ESC

\* The locals of the generator when it is created.
C33_Start == [i |-> 0, j |-> 0, code |-> None, args |-> NoneT]

\* C33 as stated, the count: the body of the tokenizer's loop runs at most as
\* many times as the text has bytes.
C33_AtMostLength ==
    \A c \in Calls :
        fn[c] # "idle" => Iterations(text[c], C33_Start) <= Len(text[c])

\* C33, amended: the tokenizer terminates on every text: every iteration of
\* its loop either leaves the loop or moves the scan position forward, by 2
\* from the ESC of an unrecognised escape and to the end of the match for a
\* recognised one, never past the end of the text; so the body of the loop
\* runs at most once more than half the length of the text, which is at most
\* the length for every text but the empty one, where it runs once.
C33_Terminates ==
    /\ [][\A c \in Calls :
            (pc[c] = "gen" /\ (j'[c] # j[c] \/ pc'[c] # pc[c])) =>
                LET jj == find(text[c], ESC, j[c])
                IN  \/ gen_done'[c]
                    \/ /\ pc'[c] = "gen"
                       /\ jj >= j[c]
                       /\ j'[c] = jj + 2
                    \/ /\ pc'[c] = "consume"
                       /\ jj >= j[c]
                       /\ j'[c] = parse_csi(text[c], jj)[2]
                       /\ j'[c] > jj + 1]_vars
    /\ [](\A c \in Calls :
            /\ j[c] <= Len(text[c])
            /\ (pc[c] = "gen" /\ ~gen_done[c]) =>
                   /\ j[c] >= 0
                   /\ Iterations(text[c], Locals(c))
                          <= (Len(text[c]) - j[c]) \div 2 + 1
            /\ fn[c] # "idle" =>
                   /\ Iterations(text[c], C33_Start)
                          <= Len(text[c]) \div 2 + 1
                   /\ Len(text[c]) > 0 =>
                          Iterations(text[c], C33_Start) <= Len(text[c])
                   /\ Len(text[c]) = 0 =>
                          Iterations(text[c], C33_Start) = 1)
    /\ \A c \in Calls : (fn[c] # "idle") ~> (gen_done[c] /\ pc[c] = "done")

C33_Witness ==
    \E c \in Calls :
        /\ Stripped(c)
        /\ text[c] = ESC \o "x" \o ESC \o "x"
        /\ gen_done[c]
        /\ Iterations(text[c], C33_Start) = 3

\* C34: two consecutive runs never carry the same attribute: there is one
\* run for every interval of the text over which the dict stays the same.
C34_NoEqualNeighbours ==
    \A c \in Calls :
        \A n \in 1 .. Len(urwid_text[c]) - 1 :
            RunAttr(c, n) # RunAttr(c, n + 1)

\* C35: the texts of the runs parse_escapes_to_urwid returns, joined in
\* order, are the text strip_ansi_escapes returns for the same input, the
\* bytes of unrecognised escapes included.
C35_SameText ==
    \A c \in Calls :
        Styled(c) => RunTexts(urwid_text[c]) = strip_ansi_escapes(text[c])

C35_Witness ==
    \E c \in Calls :
        /\ Styled(c)
        /\ text[c] = ESC \o "x" \o SGR("") \o "x"
        /\ Len(urwid_text[c]) = 2
        /\ RunTexts(urwid_text[c]) = ESC \o "xx"
        /\ strip_ansi_escapes(text[c]) = ESC \o "xx"

\* The text of the first segment, and for every later segment the bytes of
\* the CSI sequence it carries and its text, joined in order.
RECURSIVE C36_Rebuild(_)
C36_Rebuild(segments) ==
    IF segments = <<>> THEN ""
    ELSE LET last == segments[Len(segments)]
         IN  C36_Rebuild(SubSeq(segments, 1, Len(segments) - 1))
                 \o (IF last[1] = None THEN "" ELSE C31_Sequence(last[2]))
                 \o last[3]

\* C36: tokenizing loses no byte: the texts of the segments, with the bytes
\* ESC, "[", parameters, intermediates and final byte of the sequence each
\* later segment carries in front of its text, joined in order, are the
\* input; when a segment is yielded, those up to it and the sequence just
\* recognised are the input up to the scan position.
C36_NoByteLost ==
    \A c \in Calls :
        /\ fn[c] # "idle" =>
               C36_Rebuild(parse_ansi_escapes(text[c])) = text[c]
        /\ (fn[c] # "idle" /\ pc[c] = "consume") =>
               LET t == text[c]
                   sp == C30_Spans(t, 0)
                   segments == parse_ansi_escapes(t)
                   n == IF gen_done[c] THEN Len(sp) + 1
                        ELSE C30_Count(sp, i[c])
               IN  /\ yielded[c] = segments[n]
                   /\ IF gen_done[c]
                      THEN C36_Rebuild(SubSeq(segments, 1, n)) = t
                      ELSE C36_Rebuild(SubSeq(segments, 1, n))
                               \o C31_Sequence(args[c])
                           = Slice(t, 0, i[c])

C36_Witness ==
    \E c \in Calls :
        /\ text[c] = "ab" \o CSI("7;42", "H") \o "ab"
        /\ pc[c] = "consume"
        /\ ~gen_done[c]
        /\ yielded[c] = <<None, NoneT, "ab">>
        /\ args[c] = <<"7;42", "", "H">>
        /\ i[c] = 9

\* The positions of the escapes the scan of t passes over from pos on as no
\* CSI sequence.
RECURSIVE C37_Unrecognised(_, _)
C37_Unrecognised(t, pos) ==
    LET jj == find(t, ESC, pos)
    IN  IF jj = -1 \/ jj + 1 >= Len(t) THEN {}
        ELSE IF CharAt(t, jj + 1) = "[" /\ parse_csi(t, jj)[1] # NoneT
             THEN C37_Unrecognised(t, parse_csi(t, jj)[2])
             ELSE {jj} \cup C37_Unrecognised(t, jj + 2)

C38_BitOf ==
    [p \in C20_BitParams |-> CHOOSE k \in DOMAIN ECODES[p] : TRUE]

\* The dicts a and b have the same entries but for the key k.
C38_SameBut(a, b, k) ==
    /\ DOMAIN b \ {k} = DOMAIN a \ {k}
    /\ \A e \in DOMAIN a \ {k} : b[e] = a[e]

\* C38: a parameter that is no reset changes its own entry of the dict only:
\* 1, 3, 4, 5, 7 and 9 leave the colours and the other style bits as they
\* are, 30-37 and 38 with its values change nothing but the foreground, and
\* 40-47 and 48 with its values nothing but the background.
C38_OwnChannelOnly ==
    [][\A c \in Calls :
          ParamStepOf(c) =>
              LET param == Head(param_iter[c])
              IN  /\ param \in C20_BitParams =>
                         /\ C38_SameBut(attr[c], attr'[c], C38_BitOf[param])
                         /\ attr'[c][C38_BitOf[param]]
                  /\ param \in C26_FgParams \ {"", "0"} =>
                         /\ C38_SameBut(attr[c], attr'[c], "fg")
                         /\ DOMAIN attr'[c] = DOMAIN attr[c]
                  /\ param \in C26_BgParams \ {"", "0"} =>
                         /\ C38_SameBut(attr[c], attr'[c], "bg")
                         /\ DOMAIN attr'[c] = DOMAIN attr[c]]_vars

C38_Witness ==
    \E c \in Calls :
        /\ Styled(c)
        /\ text[c] = SGR("7;3;5") \o "ab" \o SGR("31") \o "x"
        /\ urwid_text[c] =
               << <<AttrSpec("default,standout,blink,italics", "default"),
                    "ab">>,
                  <<AttrSpec("dark red,standout,blink,italics", "default"),
                    "x">> >>

====
